---------------------------- MODULE Spec2Model ----------------------------
(***************************************************************************)
(* Pediatric-Agent backend: growth and nutrition analytics.                *)
(*                                                                         *)
(* Numbers.  The Python code computes on floats.  Here a measurement is an *)
(* integer number of hundredths (7050 is 70.50 cm) and every input set     *)
(* holds multiples of 0.25 only, which binary floating point represents    *)
(* exactly: sums and differences of such values are exact in the code, so  *)
(* the integer arithmetic below is what the code computes.  A nutrient     *)
(* value is a pair <<h, u>>, the double h/100 + u * 2^-55 (h a multiple of *)
(* 25, u small), added as doubles are: rounded to the 53-bit grid, ties to *)
(* even.  A date string is the sequence of its character codes.  Optional  *)
(* values are None (the empty tuple) or Some(v) (a one-element tuple).     *)
(***************************************************************************)
EXTENDS Integers, Sequences, FiniteSets, TLC

VARIABLES
    measurements,   \* calculate_trend: the argument
    trend_result,   \* calculate_trend: the returned string, or Pending
    pct_args,       \* calculate_percentile: (measurement, measurement_type, age_months)
    pct_result,     \* calculate_percentile: None, or Some(the returned value in tenths)
    children,       \* table children: id -> [parent_id, age]
    growth_logs,    \* table growth_logs, in insertion order (index = id)
    response,       \* the response of the last growth request
    stats_args,     \* the analysis of a fetched history: (rows, age)
    stats_result,   \* the analysis of a fetched history: None, or Some(GrowthStats)
    nutrition_logs, \* calculate_daily_nutrition: the argument
    daily_result,   \* calculate_daily_nutrition: None, or Some(the returned list)
    strftime_pads_year, \* the platform: does strftime("%Y") zero-pad a year below 1000
    rec_args,       \* get_nutrition_recommendations: (avg_nutrition, child_age)
    rec_result,     \* get_nutrition_recommendations: None, or Some(the returned list)
    nutrition_table, \* table nutrition_logs, in insertion order (index = id)
    summary_response, \* the response of the last nutrition request
    users,          \* table users, in insertion order (index = id)
    child_seq,      \* table children: the last AUTO_INCREMENT id handed out
    sessions        \* the user requests in flight, and their outcomes

trendVars     == <<measurements, trend_result>>
pctVars       == <<pct_args, pct_result>>
growthVars    == <<children, growth_logs, response>>
statsVars     == <<stats_args, stats_result>>
nutritionVars == <<nutrition_logs, daily_result>>
platformVars  == <<strftime_pads_year>>
recVars       == <<rec_args, rec_result>>
summaryVars   == <<nutrition_table, summary_response>>
accountVars   == <<users, child_seq, sessions>>
vars          == <<trendVars, pctVars, growthVars, statsVars, nutritionVars,
                   platformVars, recVars, summaryVars, accountVars>>

\* The variables each component leaves alone
notTrend     == <<pctVars, growthVars, statsVars, nutritionVars, platformVars,
                  recVars, summaryVars,
                  accountVars>>
notPct       == <<trendVars, growthVars, statsVars, nutritionVars, platformVars,
                  recVars, summaryVars,
                  accountVars>>
notGrowth    == <<trendVars, pctVars, statsVars, nutritionVars, platformVars,
                  recVars, summaryVars,
                  accountVars>>
notStats     == <<trendVars, pctVars, growthVars, nutritionVars, platformVars,
                  recVars, summaryVars,
                  accountVars>>
notNutrition == <<trendVars, pctVars, growthVars, statsVars, platformVars,
                  recVars, summaryVars,
                  accountVars>>
notRec       == <<trendVars, pctVars, growthVars, statsVars, nutritionVars,
                  platformVars, summaryVars,
                  accountVars>>
notSummary   == <<trendVars, pctVars, growth_logs, response, statsVars,
                  nutritionVars, platformVars, recVars,
                  accountVars>>
notAccount   == <<trendVars, pctVars, growthVars, statsVars, nutritionVars,
                  platformVars, recVars, summaryVars>>

----------------------------------------------------------------------------
(* Optional values and small helpers                                       *)

None == << >>

Some(v) == <<v>>

Pending == "pending"

Abs(x) == IF x < 0 THEN -x ELSE x

Max2(a, b) == IF a >= b THEN a ELSE b

Min2(a, b) == IF a <= b THEN a ELSE b

\* All sequences over S of length 0..n
SeqsUpTo(S, n) == UNION {[1..k -> S] : k \in 0..n}

\* round(num/den) to the nearest integer, ties to even (Python's round), den > 0
RoundHalfEven(num, den) ==
    LET q == num \div den
        r == num % den
    IN  IF 2 * r < den THEN q
        ELSE IF 2 * r > den THEN q + 1
        ELSE IF q % 2 = 0 THEN q ELSE q + 1

\* A double.  <<h, u>> is the double h / 100 + u * 2^-55: h hundredths, a
\* multiple of 25 (so h / 100 is a binary fraction), and u a small number of
\* units of 2^-55.  Every double of this form below 2^20 is written so in
\* exactly one way.
Float(h, u) == <<h, u>>

\* float(x) for each value of a list given in hundredths
Floats(values) == [i \in DOMAIN values |-> Float(values[i], 0)]

\* The spacing of the doubles around h / 100 (h >= 25), in units of 2^-55:
\* 2^-54 from 0.25, 2^-53 from 0.5, 2^-52 from 1.0, doubling with the value
RECURSIVE Ulp(_)
Ulp(h) == IF h < 50 THEN 2 ELSE 2 * Ulp(h \div 2)

\* Mutant: no rounding to 53 bits
FloatRoundExact(h, u) == <<h, u>>

\* The double nearest to h / 100 + u * 2^-55, ties to the even mantissa, for
\* a value of either sign.  A value just below a power of two lies in the
\* finer binade; below 2^-2 (h = 0) the values of the model are doubles.
FloatRound(h, u) ==
    LET m == Abs(h)
        below == (h > 0 /\ u < 0) \/ (h < 0 /\ u > 0)
        ulp == IF below /\ m >= 50 /\ Ulp(m) = Ulp(m - 25) * 2
               THEN Ulp(m) \div 2 ELSE Ulp(m)
    IN  IF h = 0 THEN <<0, u>>
        ELSE <<h, ulp * RoundHalfEven(u, ulp)>>

\* a - b in IEEE 754 double arithmetic
FloatSub(a, b) == FloatRound(a[1] - b[1], a[2] - b[2])

\* sum(xs[i+1] - xs[i] for i in range(len(xs)-1)): the differences from the
\* i-th on added to acc, left to right, every operation rounded as doubles are
RECURSIVE SumDiffs(_, _, _)
SumDiffs(xs, i, acc) ==
    IF i >= Len(xs) THEN acc
    ELSE LET d == FloatSub(xs[i + 1], xs[i])
         IN  SumDiffs(xs, i + 1, FloatRound(acc[1] + d[1], acc[2] + d[2]))

\* trend_sum / n > 0.5 for the double trend_sum (n is 1 or 2 in the code, so
\* the division is exact)
AboveThreshold(trend_sum, n, threshold) ==
    \/ trend_sum[1] > threshold * n
    \/ trend_sum[1] = threshold * n /\ trend_sum[2] > 0

\* trend_sum / n < -0.5
BelowThreshold(trend_sum, n, threshold) ==
    \/ trend_sum[1] < (-threshold) * n
    \/ trend_sum[1] = (-threshold) * n /\ trend_sum[2] < 0

----------------------------------------------------------------------------
(* calculate_trend                                                         *)

\* Bound: longest measurement list handed to calculate_trend
MaxTrendLen == 5

\* Measurement values: 0, 9.0, 9.5, 10.0, 10.5, 11.0 and the double
\* 1.75 + 3 * 2^-52, which is not a multiple of the spacing of the doubles
\* from 8 on
TrendValues ==
    {Float(0, 0), Float(900, 0), Float(950, 0), Float(1000, 0), Float(1050, 0),
     Float(1100, 0), Float(175, 24)}

\* 0.5, the threshold of a significant change, in hundredths
TrendThreshold == 50

\* Mutant: the window is the last 2 values instead of the last 3
calculate_trend_window2(ms) ==
    IF Len(ms) < 2 THEN "insufficient_data"
    ELSE
        LET recent == SubSeq(ms, Len(ms) - 1, Len(ms))
            trend_sum == SumDiffs(recent, 1, Float(0, 0))
            n == Len(recent) - 1
        IN  IF AboveThreshold(trend_sum, n, TrendThreshold) THEN "increasing"
            ELSE IF BelowThreshold(trend_sum, n, TrendThreshold) THEN "decreasing"
            ELSE "stable"

\* Mutant: no truncation, the average runs over the whole history
calculate_trend_all(ms) ==
    IF Len(ms) < 2 THEN "insufficient_data"
    ELSE
        LET trend_sum == SumDiffs(ms, 1, Float(0, 0))
            n == Len(ms) - 1
        IN  IF AboveThreshold(trend_sum, n, TrendThreshold) THEN "increasing"
            ELSE IF BelowThreshold(trend_sum, n, TrendThreshold) THEN "decreasing"
            ELSE "stable"

\* Mutant: the thresholds are inclusive (>= 0.5, <= -0.5)
calculate_trend_inclusive(ms) ==
    IF Len(ms) < 2 THEN "insufficient_data"
    ELSE
        LET recent == IF Len(ms) >= 3 THEN SubSeq(ms, Len(ms) - 2, Len(ms)) ELSE ms
            trend_sum == SumDiffs(recent, 1, Float(0, 0))
            n == Len(recent) - 1
        IN  IF AboveThreshold(trend_sum, n, TrendThreshold)
               \/ trend_sum = Float(TrendThreshold * n, 0) THEN "increasing"
            ELSE IF BelowThreshold(trend_sum, n, TrendThreshold)
               \/ trend_sum = Float((-TrendThreshold) * n, 0) THEN "decreasing"
            ELSE "stable"

\* avg_change = trend_sum / n is compared with 0.5 and -0.5; n is 1 or 2, so
\* the division is exact and avg_change > 0.5 is trend_sum > 0.5 * n.
calculate_trend(ms) ==
    IF Len(ms) < 2 THEN "insufficient_data"
    ELSE
        LET recent == IF Len(ms) >= 3 THEN SubSeq(ms, Len(ms) - 2, Len(ms)) ELSE ms
        IN  IF Len(recent) < 2 THEN "stable"
            ELSE
                LET trend_sum == SumDiffs(recent, 1, Float(0, 0))
                    n == Len(recent) - 1
                IN  IF AboveThreshold(trend_sum, n, TrendThreshold) THEN "increasing"
                    ELSE IF BelowThreshold(trend_sum, n, TrendThreshold)
                    THEN "decreasing"
                    ELSE "stable"

----------------------------------------------------------------------------
(* calculate_percentile                                                    *)

\* Bound: largest age_months handed to calculate_percentile
MaxPctAge == 40

MeasurementTypes == {"height", "weight", "head_circumference"}

\* Measurements in hundredths (0 .. 300.00), around the table means
PctValues == {0, 950, 975, 1200, 1400, 4650, 4800, 4900,
              7200, 7500, 7525, 7800, 8600, 9500, 12000, 30000}

\* The reference ages, in the iteration order of the dict's keys
ReferenceAges == <<12, 24, 36>>

\* percentiles[measurement_type][age]: mean and std in hundredths
percentiles(measurement_type, age) ==
    CASE measurement_type = "height" ->
            (CASE age = 12 -> [mean |-> 7500, std |-> 300]
               [] age = 24 -> [mean |-> 8600, std |-> 350]
               [] age = 36 -> [mean |-> 9500, std |-> 400])
      [] measurement_type = "weight" ->
            (CASE age = 12 -> [mean |-> 950, std |-> 100]
               [] age = 24 -> [mean |-> 1200, std |-> 120]
               [] age = 36 -> [mean |-> 1400, std |-> 150])
      [] measurement_type = "head_circumference" ->
            (CASE age = 12 -> [mean |-> 4650, std |-> 150]
               [] age = 24 -> [mean |-> 4800, std |-> 150]
               [] age = 36 -> [mean |-> 4900, std |-> 150])

\* Mutant: on a tie the later (higher) reference age wins
closest_age_last(age_months) ==
    LET d(i) == Abs(ReferenceAges[i] - age_months)
        best == CHOOSE i \in 1..3 :
                    /\ \A j \in 1..3 : d(i) <= d(j)
                    /\ \A j \in 1..3 : (j > i) => d(j) > d(i)
    IN  ReferenceAges[best]

\* min(keys, key=lambda x: abs(x - age_months)): the first key, in iteration
\* order, whose distance is minimal
closest_age(age_months) ==
    LET d(i) == Abs(ReferenceAges[i] - age_months)
        best == CHOOSE i \in 1..3 :
                    /\ \A j \in 1..3 : d(i) <= d(j)
                    /\ \A j \in 1..3 : (j < i) => d(j) > d(i)
    IN  ReferenceAges[best]

\* Mutant: the result is not clamped to [0, 100]
calculate_percentile_unclamped(measurement, measurement_type, age_months) ==
    LET stats == percentiles(measurement_type, closest_age(age_months))
    IN  RoundHalfEven(5000 * stats.std + (measurement - stats.mean) * 3413,
                      10 * stats.std)

\* The result in tenths of a percentile point (500 is 50.0).
\* 50 + z * 34.13 with z = (measurement - mean) / std, in tenths, is
\* (5000 * std + (measurement - mean) * 3413) / (10 * std); max(0, min(100, .))
\* clamps it and round(., 1) rounds it, and clamping commutes with rounding
\* because the limits 0 and 1000 are integers.
calculate_percentile(measurement, measurement_type, age_months) ==
    LET stats == percentiles(measurement_type, closest_age(age_months))
        raw == RoundHalfEven(5000 * stats.std + (measurement - stats.mean) * 3413,
                             10 * stats.std)
    IN  Max2(0, Min2(1000, raw))

----------------------------------------------------------------------------
(* The growth endpoints over the tables children and growth_logs           *)

\* Bound: rows of growth_logs
MaxGrowthLogs == 3

\* datetime.utcnow() at the time of a request; explicit dates lie before it
Now == 2

UserIds == {1, 2}

\* child_id values a request may carry: the two stored children, and 3 (unknown)
RequestChildIds == {1, 2, 3}

\* Child.age of child 1: missing, 0, and the ages around the 36-month limit
ChildAges == {None, Some(0), Some(36), Some(37)}

\* GrowthCreate bodies sent for child 1 (values in hundredths; every field
\* is optional), each with an explicit date or none
GrowthBodies ==
    {[height_cm |-> b[1], weight_kg |-> b[2], head_circumference_cm |-> b[3],
      measurement_date |-> b[4]] :
        b \in {<<Some(7000), Some(950), Some(4650), None>>,
               <<Some(7000), Some(950), Some(4650), Some(1)>>,
               <<Some(7200), None, None, None>>,
               <<Some(7200), None, None, Some(1)>>,
               <<None, Some(1100), None, None>>,
               <<None, None, Some(4700), None>>}}

\* GrowthCreate bodies sent for another child
OtherGrowthBodies ==
    {[height_cm |-> Some(8000), weight_kg |-> None,
      head_circumference_cm |-> None, measurement_date |-> None]}

\* Mutant: the query has no parent_id condition
verify_child_exists(child_id, current_user) ==
    IF child_id \in DOMAIN children THEN Some(child_id) ELSE None

\* select(Child).where(Child.id == child_id, Child.parent_id == current_user.id)
\* .scalar_one_or_none(): the child, or None, on which the caller raises 404
verify_child_parent(child_id, current_user) ==
    IF child_id \in DOMAIN children /\ children[child_id].parent_id = current_user
    THEN Some(child_id)
    ELSE None

NotFound(op, current_user, child_id) ==
    [op |-> op, user |-> current_user, child_id |-> child_id, status |-> 404]

\* Growth(child_id=..., ..., measurement_date=growth_data.measurement_date or utcnow())
\* (notes is stored and never read by the analysis; it is left out)
NewGrowthLog(child_id, growth_data) ==
    [child_id |-> child_id,
     height_cm |-> growth_data.height_cm,
     weight_kg |-> growth_data.weight_kg,
     head_circumference_cm |-> growth_data.head_circumference_cm,
     measurement_date |-> IF growth_data.measurement_date = None THEN Now
                          ELSE growth_data.measurement_date[1]]

add_growth_log(current_user, child_id, growth_data) ==
    LET child == verify_child_parent(child_id, current_user)
    IN  IF child = None
        THEN /\ response' = NotFound("add_growth_log", current_user, child_id)
             /\ UNCHANGED <<children, growth_logs>>
        ELSE /\ Len(growth_logs) < MaxGrowthLogs
             /\ growth_logs' = Append(growth_logs, NewGrowthLog(child[1], growth_data))
             /\ response' = [op |-> "add_growth_log", user |-> current_user,
                             child_id |-> child_id, status |-> 201,
                             body |-> [id |-> Len(growth_logs) + 1]]
             /\ UNCHANGED children

\* The ids of the rows with Growth.child_id == child_id
GrowthIdsOf(logs, child_id) ==
    {i \in DOMAIN logs : logs[i].child_id = child_id}

\* Every arrangement of the rows ids of logs in ascending measurement_date:
\* the next row is any remaining row of least date
RECURSIVE AscendingByDate(_, _)
AscendingByDate(logs, ids) ==
    IF ids = {} THEN {<< >>}
    ELSE UNION {{<<logs[i]>> \o rest : rest \in AscendingByDate(logs, ids \ {i})} :
                   i \in {j \in ids : \A k \in ids :
                             logs[j].measurement_date <= logs[k].measurement_date}}

\* The rows ids of logs in insertion (id) order
RECURSIVE AscendingById(_, _)
AscendingById(logs, ids) ==
    IF ids = {} THEN << >>
    ELSE LET i == CHOOSE j \in ids : \A k \in ids : j <= k
         IN  <<logs[i]>> \o AscendingById(logs, ids \ {i})

\* Mutant: the query has no ORDER BY; rows come in insertion (id) order
GrowthQueryUnordered(logs, child_id) ==
    {AscendingById(logs, GrowthIdsOf(logs, child_id))}

\* Mutant: the query has no child_id filter
GrowthQueryAllChildren(logs, child_id) ==
    AscendingByDate(logs, DOMAIN logs)

\* select(Growth).where(Growth.child_id == child_id).order_by(Growth.measurement_date):
\* every row list the database may return.  SQL leaves the order of rows with
\* equal measurement_date open, so each ascending arrangement is possible.
GrowthQuery(logs, child_id) ==
    AscendingByDate(logs, GrowthIdsOf(logs, child_id))

Metrics == {"height_cm", "weight_kg", "head_circumference_cm"}

\* Mutant: a missing value is kept as 0.0 instead of being skipped
NonNullValuesZero(rows, metric) ==
    [i \in 1..Len(rows) |-> IF rows[i][metric] = None THEN 0 ELSE rows[i][metric][1]]

\* [float(log.<metric>) for log in growth_logs if log.<metric> is not None]
NonNullValues(rows, metric) ==
    LET RECURSIVE Filter(_)
        Filter(i) ==
            IF i > Len(rows) THEN << >>
            ELSE IF rows[i][metric] = None THEN Filter(i + 1)
            ELSE <<rows[i][metric][1]>> \o Filter(i + 1)
    IN  Filter(1)

\* calculate_trend(values) if values else "no_data"
TrendOf(rows, metric) ==
    LET values == NonNullValues(rows, metric)
    IN  IF values = << >> THEN "no_data" ELSE calculate_trend(Floats(values))

\* int(child.age or 12): None and 0 are both falsy
child_age_months(age) ==
    IF age = None \/ age = Some(0) THEN 12 ELSE age[1]

\* Mutant: percentiles are computed only below 36 months
PercentileOfStrict(latest, measurement_type, age_months) ==
    IF latest # None /\ age_months < 36
    THEN Some(calculate_percentile(latest[1], measurement_type, age_months))
    ELSE None

\* Mutant: percentiles are computed at every age
PercentileOfAnyAge(latest, measurement_type, age_months) ==
    IF latest # None
    THEN Some(calculate_percentile(latest[1], measurement_type, age_months))
    ELSE None

\* x_percentile = None; if latest_x is not None and child_age_months <= 36: ...
PercentileOf(latest, measurement_type, age_months) ==
    IF latest # None /\ age_months <= 36
    THEN Some(calculate_percentile(latest[1], measurement_type, age_months))
    ELSE None

EmptyGrowthStats ==
    [total_measurements |-> 0,
     latest_height_cm |-> None, latest_weight_kg |-> None,
     latest_head_circumference_cm |-> None,
     height_trend |-> "no_data", weight_trend |-> "no_data",
     head_circumference_trend |-> "no_data",
     height_percentile |-> None, weight_percentile |-> None,
     head_circumference_percentile |-> None]

\* GrowthStats built from the row taken as latest_log (rows is not empty)
StatsWithLatest(rows, latest_log, age) ==
    LET months == child_age_months(age)
    IN  [total_measurements |-> Len(rows),
         latest_height_cm |-> latest_log.height_cm,
         latest_weight_kg |-> latest_log.weight_kg,
         latest_head_circumference_cm |-> latest_log.head_circumference_cm,
         height_trend |-> TrendOf(rows, "height_cm"),
         weight_trend |-> TrendOf(rows, "weight_kg"),
         head_circumference_trend |-> TrendOf(rows, "head_circumference_cm"),
         height_percentile |-> PercentileOf(latest_log.height_cm, "height", months),
         weight_percentile |-> PercentileOf(latest_log.weight_kg, "weight", months),
         head_circumference_percentile |->
             PercentileOf(latest_log.head_circumference_cm, "head_circumference",
                          months)]

\* Mutant: an empty history is answered like a one-record history
GrowthStatsOfEmptyInsufficient(rows, age) ==
    IF Len(rows) = 0
    THEN [EmptyGrowthStats EXCEPT !.height_trend = "insufficient_data",
                                  !.weight_trend = "insufficient_data",
                                  !.head_circumference_trend = "insufficient_data"]
    ELSE StatsWithLatest(rows, rows[Len(rows)], age)

\* Mutant: the latest log is the newest one that holds a height
GrowthStatsOfLatestWithHeight(rows, age) ==
    IF Len(rows) = 0 THEN EmptyGrowthStats
    ELSE
        LET withHeight == {i \in 1..Len(rows) : rows[i].height_cm # None}
            last == IF withHeight = {} THEN Len(rows)
                    ELSE CHOOSE i \in withHeight : \A j \in withHeight : j <= i
        IN  StatsWithLatest(rows, rows[last], age)

\* The body of get_growth_analysis after the query: rows are the growth_logs
\* fetched, age is child.age; latest_log = growth_logs[-1]
GrowthStatsOf(rows, age) ==
    IF Len(rows) = 0 THEN EmptyGrowthStats
    ELSE StatsWithLatest(rows, rows[Len(rows)], age)

\* rows is the list the query returned; it is kept beside the body so that the
\* response can be compared with the history it was computed from
get_growth_analysis(current_user, child_id) ==
    LET child == verify_child_parent(child_id, current_user)
    IN  /\ IF child = None
           THEN response' = NotFound("get_growth_analysis", current_user, child_id)
           ELSE \E rows \in GrowthQuery(growth_logs, child_id) :
                    response' = [op |-> "get_growth_analysis", user |-> current_user,
                                 child_id |-> child_id, status |-> 200,
                                 rows |-> rows,
                                 body |-> GrowthStatsOf(rows, children[child[1]].age)]
        /\ UNCHANGED <<children, growth_logs>>

\* A component that takes no part in a specification keeps these values
TrendIdle == measurements = << >> /\ trend_result = "idle"

PctIdle == pct_args = << >> /\ pct_result = << >>

GrowthIdle == children = << >> /\ growth_logs = << >> /\ response = << >>

StatsIdle == stats_args = << >> /\ stats_result = << >>

NutritionIdle == nutrition_logs = << >> /\ daily_result = << >>

PlatformIdle == strftime_pads_year = << >>

RecIdle == rec_args = << >> /\ rec_result = << >>

SummaryIdle == nutrition_table = << >> /\ summary_response = << >>

AccountIdle == users = << >> /\ child_seq = 0 /\ sessions = << >>

\* The components of the nutrition endpoints take no part
NutritionParked == NutritionIdle /\ PlatformIdle /\ RecIdle /\ SummaryIdle

----------------------------------------------------------------------------
(* The service: growth requests against the database                       *)

Init ==
    /\ \E age \in ChildAges :
          children = (1 :> [parent_id |-> 1, age |-> age])
                     @@ (2 :> [parent_id |-> 2, age |-> None])
    /\ growth_logs = << >>
    /\ response = [op |-> "none", status |-> 0]
    /\ TrendIdle /\ PctIdle /\ StatsIdle /\ NutritionParked /\ AccountIdle

AddGrowthLog ==
    /\ \E u \in UserIds, c \in RequestChildIds :
          \E data \in (IF u = 1 /\ c = 1 THEN GrowthBodies ELSE OtherGrowthBodies) :
              add_growth_log(u, c, data)
    /\ UNCHANGED notGrowth

GetGrowthAnalysis ==
    /\ \E u \in UserIds, c \in RequestChildIds : get_growth_analysis(u, c)
    /\ UNCHANGED notGrowth

Next ==
    \/ AddGrowthLog
    \/ GetGrowthAnalysis

Spec == Init /\ [][Next]_vars

----------------------------------------------------------------------------
(* calculate_trend applied to every bounded input                          *)

InitTrend ==
    /\ measurements \in SeqsUpTo(TrendValues, MaxTrendLen)
    /\ trend_result = Pending
    /\ PctIdle /\ GrowthIdle /\ StatsIdle /\ NutritionParked /\ AccountIdle

CallTrend ==
    /\ trend_result = Pending
    /\ trend_result' = calculate_trend(measurements)
    /\ UNCHANGED <<measurements, notTrend>>

NextTrend == CallTrend

SpecTrend == InitTrend /\ [][NextTrend]_vars

----------------------------------------------------------------------------
(* calculate_percentile applied to every bounded input                     *)

InitPercentile ==
    /\ pct_args \in [measurement : PctValues,
                     measurement_type : MeasurementTypes,
                     age_months : 0..MaxPctAge]
    /\ pct_result = None
    /\ TrendIdle /\ GrowthIdle /\ StatsIdle /\ NutritionParked /\ AccountIdle

CallPercentile ==
    /\ pct_result = None
    /\ pct_result' = Some(calculate_percentile(pct_args.measurement,
                                               pct_args.measurement_type,
                                               pct_args.age_months))
    /\ UNCHANGED <<pct_args, notPct>>

NextPercentile == CallPercentile

SpecPercentile == InitPercentile /\ [][NextPercentile]_vars

----------------------------------------------------------------------------
(* The analysis of get_growth_analysis applied to every bounded history    *)

\* Bound: rows of a fetched history
MaxStatsRows == 3

\* The values a metric takes in the rows of a fetched history
MetricValues(metric) ==
    CASE metric = "height_cm" -> {None, Some(7000), Some(7200)}
      [] metric = "weight_kg" -> {None, Some(950)}
      [] metric = "head_circumference_cm" -> {None, Some(4650)}

StatsAges == {None, Some(37)}

\* The history starts empty
InitStats ==
    /\ stats_args \in [rows : {<< >>}, age : StatsAges]
    /\ stats_result = None
    /\ TrendIdle /\ PctIdle /\ GrowthIdle /\ NutritionParked /\ AccountIdle

\* One more row of child 1 at the end of the fetched history, measured a day
\* after the rows before it, with any combination of the metric values
ExtendHistory ==
    /\ stats_result = None
    /\ Len(stats_args.rows) < MaxStatsRows
    /\ \E h \in MetricValues("height_cm"), w \in MetricValues("weight_kg"),
          hc \in MetricValues("head_circumference_cm") :
          stats_args' = [stats_args EXCEPT !.rows =
              Append(@, [child_id |-> 1, height_cm |-> h, weight_kg |-> w,
                         head_circumference_cm |-> hc,
                         measurement_date |-> Len(@) + 1])]
    /\ UNCHANGED <<stats_result, notStats>>

CallStats ==
    /\ stats_result = None
    /\ stats_result' = Some(GrowthStatsOf(stats_args.rows, stats_args.age))
    /\ UNCHANGED <<stats_args, notStats>>

NextStats == ExtendHistory \/ CallStats

SpecStats == InitStats /\ [][NextStats]_vars

----------------------------------------------------------------------------
(* calculate_daily_nutrition                                               *)

\* Bound: logs handed to calculate_daily_nutrition
MaxMealLogs == 3

MealTypes == {"breakfast", "lunch", "dinner", "snack"}

Nutrients == {"calories", "protein_g", "carbs_g", "fat_g", "fiber_g", "sodium_mg"}

\* A nutrient value is a double, written as Float(h, u)
\* Mutant: addition is exact (no rounding to 53 bits)
FloatAddExact(a, b) == <<a[1] + b[1], a[2] + b[2]>>

\* a + b in IEEE 754 double arithmetic: the exact sum rounded to the nearest
\* double, ties to the even mantissa.  Below 2^-2 (h = 0) the sums of the
\* model are doubles already.
FloatAdd(a, b) ==
    LET h == a[1] + b[1]
        u == a[2] + b[2]
    IN  IF h = 0 THEN <<0, u>>
        ELSE <<h, Ulp(h) * RoundHalfEven(u, Ulp(h))>>

\* A point in time: a calendar date and a time of day (the hour stands for it)
DateTime(year, month, day, time) ==
    [year |-> year, month |-> month, day |-> day, time |-> time]

\* Nutrition rows as far as calculate_daily_nutrition reads them: three
\* dates, two of them on either side of the year 1000, and nutrient values
\* that are multiples of 0.25 or the double 2^-55
MealLogs ==
    LET q(h) == Some(Float(h, 0))
        tiny == Some(Float(0, 1))
    IN  {[meal_date |-> DateTime(m[1][1], m[1][2], m[1][3], m[2]),
          meal_type |-> m[3],
          calories |-> m[4], protein_g |-> m[5], carbs_g |-> m[6],
          fat_g |-> m[7], fiber_g |-> m[8], sodium_mg |-> m[9]] :
            m \in {<<<<999, 12, 31>>, 8, "breakfast", q(10025), q(525), None,
                     q(0), q(125), q(20075)>>,
                   <<<<999, 12, 31>>, 12, "lunch", q(20050), None, q(3025),
                     q(750), q(150), None>>,
                   <<<<999, 12, 31>>, 19, "breakfast", q(5025), q(1000), q(1275),
                     None, None, q(10050)>>,
                   <<<<1000, 1, 1>>, 8, "breakfast", q(30000), q(1225), q(4000),
                     q(1025), q(300), q(50000)>>,
                   <<<<1000, 1, 1>>, 15, "snack", None, None, None, None, None,
                     None>>,
                   <<<<2026, 11, 1>>, 8, "dinner", q(45075), q(2050), q(5025),
                     q(1500), q(475), q(80025)>>,
                   <<<<2026, 11, 1>>, 12, "lunch", q(25), None, None, None,
                     None, None>>,
                   <<<<2026, 11, 1>>, 15, "snack", tiny, None, None, None,
                     None, None>>}}

\* float(x or 0): a missing value, like 0.0, counts as 0.0
OrZero(x) == IF x = None THEN Float(0, 0) ELSE x[1]

\* The decimal digits of a natural number, as character codes ("0" is 48)
RECURSIVE DecimalDigits(_)
DecimalDigits(n) ==
    IF n < 10 THEN <<48 + n>>
    ELSE DecimalDigits(n \div 10) \o <<48 + (n % 10)>>

\* A number below 10^width in exactly width digits, zero-padded
RECURSIVE ZeroPadded(_, _)
ZeroPadded(n, width) ==
    IF width = 0 THEN << >>
    ELSE ZeroPadded(n \div 10, width - 1) \o <<48 + (n % 10)>>

\* "%Y": the year in decimal; the C library decides whether a year below
\* 1000 is zero-padded to 4 digits (glibc does not pad, others do)
FormatYear(year) ==
    IF strftime_pads_year THEN ZeroPadded(year, 4) ELSE DecimalDigits(year)

\* Mutant: the whole timestamp is the key, not its date ("%Y-%m-%d %H")
date_str_with_time(meal_date) ==
    FormatYear(meal_date.year) \o <<45>> \o ZeroPadded(meal_date.month, 2)
        \o <<45>> \o ZeroPadded(meal_date.day, 2)
        \o <<32>> \o ZeroPadded(meal_date.time, 2)

\* Mutant: the month is left out of the key ("%Y-%d")
date_str_no_month(meal_date) ==
    FormatYear(meal_date.year) \o <<45>> \o ZeroPadded(meal_date.day, 2)

\* meal_date.strftime("%Y-%m-%d"): a string, here the sequence of its
\* character codes ("-" is 45); the time of day is dropped
date_str(meal_date) ==
    FormatYear(meal_date.year) \o <<45>> \o ZeroPadded(meal_date.month, 2)
        \o <<45>> \o ZeroPadded(meal_date.day, 2)

\* s < t for two strings: at the first position where they differ s has the
\* smaller character, or s ends there
StrLess(s, t) ==
    \E i \in 1..(Len(t)) :
        /\ i <= Len(s) + 1
        /\ \A j \in 1..(i - 1) : s[j] = t[j]
        /\ (i = Len(s) + 1 \/ s[i] < t[i])

\* The value of defaultdict's factory for a date not yet seen
NewDaily ==
    [calories |-> Float(0, 0), protein_g |-> Float(0, 0), carbs_g |-> Float(0, 0),
     fat_g |-> Float(0, 0), fiber_g |-> Float(0, 0), sodium_mg |-> Float(0, 0),
     meal_count |-> 0, meals_by_type |-> << >>]

\* Mutant: a log without calories is not counted as a meal
AddMealSkipNoCalories(daily, log) ==
    [calories |-> FloatAdd(daily.calories, OrZero(log.calories)),
     protein_g |-> FloatAdd(daily.protein_g, OrZero(log.protein_g)),
     carbs_g |-> FloatAdd(daily.carbs_g, OrZero(log.carbs_g)),
     fat_g |-> FloatAdd(daily.fat_g, OrZero(log.fat_g)),
     fiber_g |-> FloatAdd(daily.fiber_g, OrZero(log.fiber_g)),
     sodium_mg |-> FloatAdd(daily.sodium_mg, OrZero(log.sodium_mg)),
     meal_count |-> daily.meal_count + (IF log.calories = None THEN 0 ELSE 1),
     meals_by_type |->
        [t \in DOMAIN daily.meals_by_type \cup {log.meal_type} |->
            (IF t \in DOMAIN daily.meals_by_type THEN daily.meals_by_type[t] ELSE 0)
            + (IF t = log.meal_type THEN 1 ELSE 0)]]

\* The body of the loop over nutrition_logs: daily[...] += ...
AddMeal(daily, log) ==
    [calories |-> FloatAdd(daily.calories, OrZero(log.calories)),
     protein_g |-> FloatAdd(daily.protein_g, OrZero(log.protein_g)),
     carbs_g |-> FloatAdd(daily.carbs_g, OrZero(log.carbs_g)),
     fat_g |-> FloatAdd(daily.fat_g, OrZero(log.fat_g)),
     fiber_g |-> FloatAdd(daily.fiber_g, OrZero(log.fiber_g)),
     sodium_mg |-> FloatAdd(daily.sodium_mg, OrZero(log.sodium_mg)),
     meal_count |-> daily.meal_count + 1,
     meals_by_type |->
        [t \in DOMAIN daily.meals_by_type \cup {log.meal_type} |->
            (IF t \in DOMAIN daily.meals_by_type THEN daily.meals_by_type[t] ELSE 0)
            + (IF t = log.meal_type THEN 1 ELSE 0)]]

\* daily_data after the loop has run over logs[i..]
RECURSIVE AccumulateDaily(_, _, _)
AccumulateDaily(logs, i, daily_data) ==
    IF i > Len(logs) THEN daily_data
    ELSE
        LET key == date_str(logs[i].meal_date)
            daily == IF key \in DOMAIN daily_data THEN daily_data[key] ELSE NewDaily
            updated == AddMeal(daily, logs[i])
        IN  AccumulateDaily(logs, i + 1,
                [k \in DOMAIN daily_data \cup {key} |->
                    IF k = key THEN updated ELSE daily_data[k]])

\* round(x, 1), in tenths: the decimal nearest to the exact value of the
\* double, a tie (h ends in 5 and u = 0) going to the even tenth
Round1(x) ==
    IF x[2] > 0 /\ x[1] % 10 = 5 THEN (x[1] \div 10) + 1
    ELSE RoundHalfEven(x[1], 10)

\* DailyNutrition(date=..., total_...=round(..., 1), meal_count=..., meals_by_type=...)
DailyNutrition(key, data) ==
    [date |-> key,
     total_calories |-> Round1(data.calories),
     total_protein_g |-> Round1(data.protein_g),
     total_carbs_g |-> Round1(data.carbs_g),
     total_fat_g |-> Round1(data.fat_g),
     total_fiber_g |-> Round1(data.fiber_g),
     total_sodium_mg |-> Round1(data.sodium_mg),
     meal_count |-> data.meal_count,
     meals_by_type |-> data.meals_by_type]

\* Mutant: the summaries come in descending key order
RECURSIVE SortedSummariesDescending(_, _)
SortedSummariesDescending(daily_data, keys) ==
    IF keys = {} THEN << >>
    ELSE LET greatest == CHOOSE k \in keys : \A j \in keys \ {k} : StrLess(j, k)
         IN  <<DailyNutrition(greatest, daily_data[greatest])>>
                 \o SortedSummariesDescending(daily_data, keys \ {greatest})

\* for date_str, data in sorted(daily_data.items()): the summaries in
\* ascending order of the key strings (the keys differ, so the dicts beside
\* them are never compared)
RECURSIVE SortedSummaries(_, _)
SortedSummaries(daily_data, keys) ==
    IF keys = {} THEN << >>
    ELSE LET least == CHOOSE k \in keys : \A j \in keys \ {k} : StrLess(k, j)
         IN  <<DailyNutrition(least, daily_data[least])>>
                 \o SortedSummaries(daily_data, keys \ {least})

calculate_daily_nutrition(logs) ==
    LET daily_data == AccumulateDaily(logs, 1, << >>)
    IN  SortedSummaries(daily_data, DOMAIN daily_data)

InitNutrition ==
    /\ nutrition_logs = << >>
    /\ daily_result = None
    /\ strftime_pads_year \in BOOLEAN
    /\ TrendIdle /\ PctIdle /\ GrowthIdle /\ StatsIdle /\ RecIdle /\ SummaryIdle /\ AccountIdle

\* One more log at the end of the argument, in any order of dates
ExtendMealLogs ==
    /\ daily_result = None
    /\ Len(nutrition_logs) < MaxMealLogs
    /\ \E log \in MealLogs : nutrition_logs' = Append(nutrition_logs, log)
    /\ UNCHANGED <<daily_result, notNutrition>>

CallDailyNutrition ==
    /\ daily_result = None
    /\ daily_result' = Some(calculate_daily_nutrition(nutrition_logs))
    /\ UNCHANGED <<nutrition_logs, notNutrition>>

NextNutrition == ExtendMealLogs \/ CallDailyNutrition

SpecNutrition == InitNutrition /\ [][NextNutrition]_vars

----------------------------------------------------------------------------
(* get_nutrition_recommendations                                           *)
(* An average is a number of tenths (6400 is 640.0), as round(x, 1) yields *)
(* it.  The thresholds target * 0.8 and target * 1.2 are exact doubles for *)
(* the six targets (640.0, 960.0, 800.0, 1200.0, 960.0, 1440.0, 12.0,      *)
(* 16.0, 20.0), so comparing tenths compares the doubles.                  *)

\* Averages around every threshold of the function, in tenths
AvgCalories == {6399, 6400, 6401, 7999, 8000, 8001, 9599, 9600, 9601,
                11999, 12000, 12001, 14399, 14400, 14401}

AvgProtein == {119, 120, 121, 159, 160, 161, 199, 200, 201}

AvgFiber == {99, 100, 101}

AvgSodium == {14999, 15000, 15001}

\* child_age values on both sides of the age bands
RecAges == {0, 12, 13, 24, 25, 36}

\* Mutant: the first band ends before 12 months
target_calories_strict(child_age) ==
    IF child_age < 12 THEN 800
    ELSE IF child_age <= 24 THEN 1000
    ELSE 1200

target_calories(child_age) ==
    IF child_age <= 12 THEN 800
    ELSE IF child_age <= 24 THEN 1000
    ELSE 1200

target_protein(child_age) ==
    IF child_age <= 12 THEN 15
    ELSE IF child_age <= 24 THEN 20
    ELSE 25

\* f"Consider increasing daily calories. Target: ~{target_calories} calories/day"
IncreaseCalories(target) ==
    CASE target = 800 -> "Consider increasing daily calories. Target: ~800 calories/day"
      [] target = 1000 -> "Consider increasing daily calories. Target: ~1000 calories/day"
      [] target = 1200 -> "Consider increasing daily calories. Target: ~1200 calories/day"

PortionControl == "Daily calorie intake seems high. Consider portion control."

\* f"Increase protein intake. Target: ~{target_protein}g protein/day"
IncreaseProtein(target) ==
    CASE target = 15 -> "Increase protein intake. Target: ~15g protein/day"
      [] target = 20 -> "Increase protein intake. Target: ~20g protein/day"
      [] target = 25 -> "Increase protein intake. Target: ~25g protein/day"

MoreFiber == "Include more fruits, vegetables, and whole grains for fiber"

LessSodium == "Reduce sodium intake. Limit processed foods."

WellBalanced == "Nutritional intake looks well-balanced!"

\* The messages the four rules append, in the order of the code
RuleMessages(avg_nutrition, child_age) ==
    LET calories ==
            IF avg_nutrition.calories < 8 * target_calories(child_age)
            THEN <<IncreaseCalories(target_calories(child_age))>>
            ELSE IF avg_nutrition.calories > 12 * target_calories(child_age)
            THEN <<PortionControl>>
            ELSE << >>
        protein ==
            IF avg_nutrition.protein_g < 8 * target_protein(child_age)
            THEN <<IncreaseProtein(target_protein(child_age))>>
            ELSE << >>
        fiber == IF avg_nutrition.fiber_g < 100 THEN <<MoreFiber>> ELSE << >>
        sodium == IF avg_nutrition.sodium_mg > 15000 THEN <<LessSodium>> ELSE << >>
    IN  calories \o protein \o fiber \o sodium

\* Mutant: the well-balanced message is appended whatever the rules said
get_nutrition_recommendations_always_balanced(avg_nutrition, child_age) ==
    RuleMessages(avg_nutrition, child_age) \o <<WellBalanced>>

get_nutrition_recommendations(avg_nutrition, child_age) ==
    LET recommendations == RuleMessages(avg_nutrition, child_age)
    IN  IF recommendations = << >> THEN <<WellBalanced>> ELSE recommendations

\* The function applied to every combination of the averages and ages
\* (carbs_g and fat_g are keys of avg_nutrition the function never reads)
InitRec ==
    /\ rec_args \in [avg_nutrition : [calories : AvgCalories, protein_g : AvgProtein,
                                       fiber_g : AvgFiber, sodium_mg : AvgSodium],
                      child_age : RecAges]
    /\ rec_result = None
    /\ TrendIdle /\ PctIdle /\ GrowthIdle /\ StatsIdle
    /\ NutritionIdle /\ PlatformIdle /\ SummaryIdle /\ AccountIdle

CallRecommendations ==
    /\ rec_result = None
    /\ rec_result' = Some(get_nutrition_recommendations(rec_args.avg_nutrition,
                                                        rec_args.child_age))
    /\ UNCHANGED <<rec_args, notRec>>

NextRec == CallRecommendations

SpecRec == InitRec /\ [][NextRec]_vars

----------------------------------------------------------------------------
(* The nutrition endpoints over the tables children and nutrition_logs     *)

\* Bound: rows of nutrition_logs
MaxNutritionRows == 3

\* datetime.utcnow() at the time of a request
utcnow == DateTime(2026, 11, 1, 12)

\* The days parameter of a summary request: the default, 0, a negative
\* number, and one that takes end_date - timedelta(days) past year 9999
SummaryDays == {7, 0, -1, -3000000}

\* Child.age of child 1 in the nutrition requests
SummaryAges == {None, Some(25)}

\* The child_id path parameter of the nutrition requests: the caller's child
\* and another parent's
SummaryChildIds == {1, 2}

IsLeap(year) == year % 4 = 0 /\ (year % 100 # 0 \/ year % 400 = 0)

\* The days before January 1st of the year, counted from 0001-01-01
DaysBeforeYear(year) ==
    LET y == year - 1
    IN  y * 365 + (y \div 4) - (y \div 100) + (y \div 400)

\* The days of the year before the first day of the month
DaysBeforeMonth(year, month) ==
    <<0, 31, 59, 90, 120, 151, 181, 212, 243, 273, 304, 334>>[month]
        + (IF month > 2 /\ IsLeap(year) THEN 1 ELSE 0)

\* date.toordinal(): 0001-01-01 is day 1
toordinal(date) ==
    DaysBeforeYear(date.year) + DaysBeforeMonth(date.year, date.month) + date.day

\* The ordinal of datetime.max, 9999-12-31
MaxOrdinal == 3652059

\* The largest number of days of a timedelta
MaxTimedeltaDays == 999999999

\* A point in time as it is compared: the day's ordinal, then the time of day
Instant(date) == <<toordinal(date), date.time>>

InstantLeq(a, b) == a[1] < b[1] \/ (a[1] = b[1] /\ a[2] <= b[2])

\* Mutant: the window reaches forward (end_date + timedelta(days=days))
SubtractDaysForward(end_date, days) ==
    Some(<<toordinal(end_date) + days, end_date.time>>)

\* end_date - timedelta(days=days): Some(the instant), or None where Python
\* raises OverflowError: timedelta takes at most 999999999 days either way,
\* and the difference must lie in datetime.min .. datetime.max
SubtractDays(end_date, days) ==
    LET ordinal == toordinal(end_date) - days
    IN  IF days > MaxTimedeltaDays \/ days < -MaxTimedeltaDays THEN None
        ELSE IF ordinal < 1 \/ ordinal > MaxOrdinal THEN None
        ELSE Some(<<ordinal, end_date.time>>)

\* The value of the Text column food_items: a text json.loads parses into
\* the value, or a text it raises on
JsonText(value) == [parses |-> TRUE, value |-> value]

BrokenText == [parses |-> FALSE]

\* json.dumps([item.dict() for item in nutrition_data.food_items]): every
\* item becomes an object that has the key "name" (quantity and
\* calories_per_serving travel with it and are never read)
json_dumps(food_items) ==
    JsonText([i \in 1..Len(food_items) |-> [name |-> food_items[i]]])

\* NutritionCreate bodies sent for child 1: the food names, the nutrient
\* values (hundredths, multiples of 0.25) and the meal date, if any: none
\* (the time of the request), the day before, exactly seven days before the
\* request, and the day after it
NutritionBodies ==
    LET q(h) == Some(Float(h, 0))
    IN  {[meal_type |-> b[1], food_items |-> b[2], calories |-> b[3],
          protein_g |-> b[4], carbs_g |-> b[5], fat_g |-> b[6],
          fiber_g |-> b[7], sodium_mg |-> b[8], meal_date |-> b[9]] :
            b \in {<<"breakfast", <<"apple", "banana", "rice">>, q(80000), q(1500),
                     None, q(25), q(1000), q(150000), None>>,
                   <<"lunch", <<"banana", "milk", "egg">>, q(70025), q(1475),
                     q(125), q(25), None, q(0),
                     Some(DateTime(2026, 10, 31, 8))>>,
                   <<"dinner", <<"carrot", "banana", "apple">>, q(220000), q(1500),
                     q(50), q(25), q(1000), q(150025),
                     Some(DateTime(2026, 10, 25, 12))>>,
                   <<"snack", <<"yogurt">>, q(90000), None, None, None, None,
                     None, Some(DateTime(2026, 11, 2, 8))>>}}

\* NutritionCreate bodies sent for another child
OtherNutritionBodies ==
    {[meal_type |-> "lunch", food_items |-> <<"bread">>,
      calories |-> Some(Float(30000, 0)), protein_g |-> None, carbs_g |-> None,
      fat_g |-> None, fiber_g |-> None, sodium_mg |-> None, meal_date |-> None]}

\* Nutrition(child_id=..., food_items=food_items_json, ...,
\* meal_date=nutrition_data.meal_date or datetime.utcnow())
NewNutritionLog(child_id, nutrition_data) ==
    [child_id |-> child_id,
     meal_type |-> nutrition_data.meal_type,
     food_items |-> json_dumps(nutrition_data.food_items),
     calories |-> nutrition_data.calories,
     protein_g |-> nutrition_data.protein_g,
     carbs_g |-> nutrition_data.carbs_g,
     fat_g |-> nutrition_data.fat_g,
     fiber_g |-> nutrition_data.fiber_g,
     sodium_mg |-> nutrition_data.sodium_mg,
     meal_date |-> IF nutrition_data.meal_date = None THEN utcnow
                   ELSE nutrition_data.meal_date[1]]

add_meal_log(current_user, child_id, nutrition_data) ==
    LET child == verify_child_parent(child_id, current_user)
    IN  IF child = None
        THEN /\ summary_response' = NotFound("add_meal_log", current_user, child_id)
             /\ UNCHANGED nutrition_table
        ELSE /\ nutrition_table' =
                    Append(nutrition_table, NewNutritionLog(child[1], nutrition_data))
             /\ summary_response' =
                    [op |-> "add_meal_log", user |-> current_user,
                     child_id |-> child_id, status |-> 201,
                     body |-> [id |-> Len(nutrition_table) + 1]]

\* json.loads(text): Some(the value), or None where it raises
json_loads(text) == IF text.parses THEN Some(text.value) ELSE None

\* all_foods.append(item['name']) for the items of one log from the i-th on:
\* an item without the key "name" raises KeyError, which ends the log's loop
\* and keeps the names appended before it
RECURSIVE NamesAppended(_, _)
NamesAppended(items, i) ==
    IF i > Len(items) THEN << >>
    ELSE IF "name" \notin DOMAIN items[i] THEN << >>
    ELSE <<items[i].name>> \o NamesAppended(items, i + 1)

\* The body of the loop that collects all_foods, for one log: try ... except:
\* continue
FoodNamesOf(log) ==
    LET food_items == json_loads(log.food_items)
    IN  IF food_items = None THEN << >> ELSE NamesAppended(food_items[1], 1)

\* all_foods after the loop over the logs from the i-th on
RECURSIVE all_foods(_, _)
all_foods(logs, i) ==
    IF i > Len(logs) THEN << >>
    ELSE FoodNamesOf(logs[i]) \o all_foods(logs, i + 1)

CountOf(foods, name) == Cardinality({i \in 1..Len(foods) : foods[i] = name})

\* The position of the first occurrence: the name's place in the Counter
FirstAt(foods, name) ==
    CHOOSE i \in 1..Len(foods) :
        foods[i] = name /\ \A j \in 1..(i - 1) : foods[j] # name

\* Mutant: among equal counts the name met last comes first
RECURSIVE MostCommonLastFirst(_, _, _)
MostCommonLastFirst(foods, names, n) ==
    IF n = 0 \/ names = {} THEN << >>
    ELSE LET best == CHOOSE x \in names : \A y \in names \ {x} :
                        \/ CountOf(foods, x) > CountOf(foods, y)
                        \/ /\ CountOf(foods, x) = CountOf(foods, y)
                           /\ FirstAt(foods, x) > FirstAt(foods, y)
         IN  <<best>> \o MostCommonLastFirst(foods, names \ {best}, n - 1)

\* Counter(foods).most_common(n) over the names not yet listed: the names by
\* descending count, names of equal count in the order they were first met
RECURSIVE MostCommon(_, _, _)
MostCommon(foods, names, n) ==
    IF n = 0 \/ names = {} THEN << >>
    ELSE LET best == CHOOSE x \in names : \A y \in names \ {x} :
                        \/ CountOf(foods, x) > CountOf(foods, y)
                        \/ /\ CountOf(foods, x) = CountOf(foods, y)
                           /\ FirstAt(foods, x) < FirstAt(foods, y)
         IN  <<best>> \o MostCommon(foods, names \ {best}, n - 1)

\* [food for food, count in Counter(all_foods).most_common(5)]
most_common_foods(logs) ==
    LET foods == all_foods(logs, 1)
    IN  MostCommon(foods, {foods[i] : i \in 1..Len(foods)}, 5)

\* The ids of the rows with Nutrition.child_id == child_id and
\* start_date <= Nutrition.meal_date <= end_date
NutritionIdsInRange(table, child_id, start_date, end_date) ==
    {i \in DOMAIN table :
        /\ table[i].child_id = child_id
        /\ InstantLeq(start_date, Instant(table[i].meal_date))
        /\ InstantLeq(Instant(table[i].meal_date), end_date)}

\* Every arrangement of the rows ids of the table in ascending meal_date
RECURSIVE AscendingByMealDate(_, _)
AscendingByMealDate(table, ids) ==
    IF ids = {} THEN {<< >>}
    ELSE UNION {{<<table[i]>> \o rest : rest \in AscendingByMealDate(table, ids \ {i})} :
                   i \in {j \in ids : \A k \in ids :
                             InstantLeq(Instant(table[j].meal_date),
                                        Instant(table[k].meal_date))}}

\* Mutant: the query has no child_id filter
NutritionQueryAllChildren(table, child_id, start_date, end_date) ==
    AscendingByMealDate(table,
        {i \in DOMAIN table :
            /\ InstantLeq(start_date, Instant(table[i].meal_date))
            /\ InstantLeq(Instant(table[i].meal_date), end_date)})

\* select(Nutrition).where(child_id == ..., meal_date >= start_date,
\* meal_date <= end_date).order_by(Nutrition.meal_date): every row list the
\* database may return (rows of equal meal_date in any order)
NutritionQuery(table, child_id, start_date, end_date) ==
    AscendingByMealDate(table,
        NutritionIdsInRange(table, child_id, start_date, end_date))

\* sum(float(log.<nutrient> or 0) for log in nutrition_logs): the float sum
\* from left to right, acc holding the sum of the logs before the i-th
RECURSIVE SumFloat(_, _, _, _)
SumFloat(logs, nutrient, i, acc) ==
    IF i > Len(logs) THEN acc
    ELSE SumFloat(logs, nutrient, i + 1, FloatAdd(acc, OrZero(logs[i][nutrient])))

\* Mutant: the quotient is cut off after the first decimal
AverageRound1Floor(total, total_days) == total[1] \div (10 * total_days)

\* round(total / total_days, 1), in tenths.  Where the exact quotient of a
\* total of the model ends in 5 hundredths it is a quarter and so a double
\* (totals that are multiples of 0.25 over 1..4 days, whole-number totals
\* over 1..10 days): the division is exact there and the tie goes to the
\* even tenth.
AverageRound1(total, total_days) ==
    IF total[2] > 0 /\ total[1] % (10 * total_days) = 5 * total_days
    THEN (total[1] \div (10 * total_days)) + 1
    ELSE RoundHalfEven(total[1], 10 * total_days)

\* Mutant: the totals are divided by the number of logs
daily_averages_per_log(logs, daily_summaries) ==
    [nutrient \in Nutrients |->
        AverageRound1(SumFloat(logs, nutrient, 1, Float(0, 0)), Len(logs))]

\* total_days = len(daily_summaries) if daily_summaries else 1, and the dict
\* daily_averages
daily_averages(logs, daily_summaries) ==
    LET total_days == IF Len(daily_summaries) > 0 THEN Len(daily_summaries) ELSE 1
    IN  [nutrient \in Nutrients |->
            AverageRound1(SumFloat(logs, nutrient, 1, Float(0, 0)), total_days)]

\* Mutant: 800 calories are not yet adequate (800 < average)
nutrition_goals_status_exclusive(averages) ==
    [calories |-> IF 8000 < averages.calories /\ averages.calories <= 15000
                  THEN "adequate" ELSE "needs_attention",
     protein |-> IF averages.protein_g >= 150 THEN "adequate" ELSE "low",
     fiber |-> IF averages.fiber_g >= 100 THEN "adequate" ELSE "low",
     sodium |-> IF averages.sodium_mg <= 15000 THEN "good" ELSE "high"]

\* The dict nutrition_goals_status (averages in tenths)
nutrition_goals_status(averages) ==
    [calories |-> IF 8000 <= averages.calories /\ averages.calories <= 15000
                  THEN "adequate" ELSE "needs_attention",
     protein |-> IF averages.protein_g >= 150 THEN "adequate" ELSE "low",
     fiber |-> IF averages.fiber_g >= 100 THEN "adequate" ELSE "low",
     sodium |-> IF averages.sodium_mg <= 15000 THEN "good" ELSE "high"]

\* f"Last {days} days"
date_range(days) == <<"Last ", days, " days">>

\* Mutant: the first 7 entries (daily_summaries[:7])
First7(daily_summaries) ==
    IF Len(daily_summaries) <= 7 THEN daily_summaries
    ELSE SubSeq(daily_summaries, 1, 7)

\* daily_summaries[-7:]
Last7(daily_summaries) ==
    IF Len(daily_summaries) <= 7 THEN daily_summaries
    ELSE SubSeq(daily_summaries, Len(daily_summaries) - 6, Len(daily_summaries))

StartLogging == "No nutrition data available. Start logging meals!"

\* Mutant: an empty range is answered with no recommendation at all
EmptyNutritionSummaryNoAdvice(days) ==
    [total_logs |-> 0, date_range |-> date_range(days), daily_averages |-> << >>,
     recent_daily_summaries |-> << >>, most_common_foods |-> << >>,
     nutrition_goals_status |-> << >>, recommendations |-> << >>]

\* The summary returned when the query finds no log
EmptyNutritionSummary(days) ==
    [total_logs |-> 0, date_range |-> date_range(days), daily_averages |-> << >>,
     recent_daily_summaries |-> << >>, most_common_foods |-> << >>,
     nutrition_goals_status |-> << >>, recommendations |-> <<StartLogging>>]

\* The body of get_nutrition_summary after the query: logs are the rows
\* fetched, age is child.age
NutritionSummaryOf(logs, age, days) ==
    IF Len(logs) = 0 THEN EmptyNutritionSummary(days)
    ELSE
        LET daily_summaries == calculate_daily_nutrition(logs)
            averages == daily_averages(logs, daily_summaries)
        IN  [total_logs |-> Len(logs),
             date_range |-> date_range(days),
             daily_averages |-> averages,
             recent_daily_summaries |-> Last7(daily_summaries),
             most_common_foods |-> most_common_foods(logs),
             nutrition_goals_status |-> nutrition_goals_status(averages),
             recommendations |->
                 get_nutrition_recommendations(averages, child_age_months(age))]

\* An exception no handler of the route catches: ErrorHandlerMiddleware
\* answers 500
InternalError(op, current_user, child_id, days) ==
    [op |-> op, user |-> current_user, child_id |-> child_id, days |-> days,
     status |-> 500]

\* rows is the list the query returned; it is kept beside the body so that
\* the response can be compared with the logs it was computed from
get_nutrition_summary(current_user, child_id, days) ==
    LET child == verify_child_parent(child_id, current_user)
        end_date == utcnow
        start_date == SubtractDays(end_date, days)
    IN  /\ IF child = None
           THEN summary_response' =
                    NotFound("get_nutrition_summary", current_user, child_id)
           ELSE IF start_date = None
           THEN summary_response' =
                    InternalError("get_nutrition_summary", current_user, child_id, days)
           ELSE \E rows \in NutritionQuery(nutrition_table, child_id,
                                           start_date[1], Instant(end_date)) :
                    summary_response' =
                        [op |-> "get_nutrition_summary", user |-> current_user,
                         child_id |-> child_id, days |-> days, status |-> 200,
                         rows |-> rows,
                         body |-> NutritionSummaryOf(rows, children[child[1]].age,
                                                     days)]
        /\ UNCHANGED nutrition_table

InitSummary ==
    /\ \E age \in SummaryAges :
          children = (1 :> [parent_id |-> 1, age |-> age])
                     @@ (2 :> [parent_id |-> 2, age |-> None])
    /\ nutrition_table = << >>
    /\ summary_response = [op |-> "none", status |-> 0]
    /\ strftime_pads_year \in BOOLEAN
    /\ growth_logs = << >> /\ response = << >>
    /\ TrendIdle /\ PctIdle /\ StatsIdle /\ NutritionIdle /\ RecIdle /\ AccountIdle

AddMealLog ==
    /\ \E u \in UserIds, c \in SummaryChildIds :
          \E data \in (IF u = 1 /\ c = 1 THEN NutritionBodies
                       ELSE OtherNutritionBodies) :
              /\ verify_child_parent(c, u) # None
                     => Len(nutrition_table) < MaxNutritionRows
              /\ add_meal_log(u, c, data)
    /\ UNCHANGED <<children, notSummary>>

GetNutritionSummary ==
    /\ \E u \in UserIds, c \in SummaryChildIds, days \in SummaryDays :
          get_nutrition_summary(u, c, days)
    /\ UNCHANGED <<children, notSummary>>

NextSummary ==
    \/ AddMealLog
    \/ GetNutritionSummary

SpecSummary == InitSummary /\ [][NextSummary]_vars

----------------------------------------------------------------------------
(* The nutrition endpoints over a month of meals of one child              *)

\* Bound: meals logged for the child within the month
MaxMonthRows == 9

\* The days parameter of the monthly summary
MonthDays == 30

\* The first day of October 2026 with a meal
FirstMealDay == 13

\* How many days after the last meal the next one is posted: none (the same
\* day) or, by turns, one and two (the next day, or a day skipped)
MealSteps(table) == {0, 1 + (Len(table) % 2)}

\* The meal posted after the rows stored so far, an hour later in the day;
\* whole-number nutrient values that differ with the step
NextMeal(table, step) ==
    LET day == IF table = << >> THEN FirstMealDay
               ELSE table[Len(table)].meal_date.day + step
    IN  [meal_type |-> <<"snack", "breakfast", "dinner">>[step + 1],
         food_items |-> <<<<"milk">>, <<"rice", "egg">>, <<"apple">>>>[step + 1],
         calories |-> Some(Float(<<80000, 70000, 120000>>[step + 1], 0)),
         protein_g |-> Some(Float(<<1500, 1200, 2000>>[step + 1], 0)),
         carbs_g |-> None,
         fat_g |-> Some(Float(100, 0)),
         fiber_g |-> IF step = 2 THEN Some(Float(1000, 0)) ELSE None,
         sodium_mg |-> Some(Float(150000, 0)),
         meal_date |-> Some(DateTime(2026, 10, day, Len(table) + 1))]

InitMonth ==
    /\ children = (1 :> [parent_id |-> 1, age |-> Some(25)])
    /\ nutrition_table = << >>
    /\ summary_response = [op |-> "none", status |-> 0]
    /\ strftime_pads_year \in BOOLEAN
    /\ growth_logs = << >> /\ response = << >>
    /\ TrendIdle /\ PctIdle /\ StatsIdle /\ NutritionIdle /\ RecIdle /\ AccountIdle

AddNextMealLog ==
    /\ Len(nutrition_table) < MaxMonthRows
    /\ \E step \in MealSteps(nutrition_table) :
          add_meal_log(1, 1, NextMeal(nutrition_table, step))
    /\ UNCHANGED <<children, notSummary>>

GetMonthSummary ==
    /\ get_nutrition_summary(1, 1, MonthDays)
    /\ UNCHANGED <<children, notSummary>>

NextMonth ==
    \/ AddNextMealLog
    \/ GetMonthSummary

SpecMonth == InitMonth /\ [][NextMonth]_vars

\* Texts that may stand in the food_items column of a row that was not
\* written by add_meal_log (the column is plain Text): invalid JSON, a list
\* whose second item has no name, and a list whose first item has none
ForeignPayloads ==
    {BrokenText,
     JsonText(<<[name |-> "apple"], [quantity |-> "1 cup"]>>),
     JsonText(<<[quantity |-> "1 cup"], [name |-> "kiwi"]>>)}

\* Rows of child 1 with such a text, dated the day before the request
ForeignLogs ==
    {[child_id |-> 1, meal_type |-> "snack", food_items |-> text,
      calories |-> Some(Float(10025, 0)), protein_g |-> Some(Float(500, 0)),
      carbs_g |-> None, fat_g |-> None, fiber_g |-> None, sodium_mg |-> None,
      meal_date |-> DateTime(2026, 10, 31, 15)] : text \in ForeignPayloads}

\* Another writer of the database stores a row; no request is answered
StoreForeignLog ==
    /\ Len(nutrition_table) < MaxNutritionRows
    /\ \E log \in ForeignLogs : nutrition_table' = Append(nutrition_table, log)
    /\ UNCHANGED <<summary_response, children, notSummary>>

NextSummaryForeign ==
    \/ AddMealLog
    \/ GetNutritionSummary
    \/ StoreForeignLog

SpecSummaryForeign == InitSummary /\ [][NextSummaryForeign]_vars

----------------------------------------------------------------------------
(* The user endpoints over the table users, their requests interleaved at  *)
(* the points where a handler awaits the database                          *)

\* Bound: rows of users
MaxUsers == 2

\* Bound: user requests started in one run
MaxSessions == 3

Emails == {"a@x.org", "b@x.org"}

\* UserRegister bodies
RegisterBodies ==
    {[email |-> e, password |-> "pw", full_name |-> None] : e \in Emails}

\* update_user_info requests (current_user, user_id, UserUpdate; every field
\* of the body is optional): a user changes their own email or name, and
\* user 2 asks for the email of user 1 to be changed
UpdateRequests ==
    {<<u, u, [email |-> Some(e), full_name |-> None]>> : u \in {1, 2}, e \in Emails}
        \cup {<<1, 1, [email |-> None, full_name |-> Some("Ann")]>>,
              <<2, 1, [email |-> Some("b@x.org"), full_name |-> None]>>}

\* pwd_context.hash / pwd_context.verify: a hash verifies the password it
\* was made from and no other
get_password_hash(password) == <<"bcrypt", password>>

verify_password(plain_password, hashed_password) ==
    hashed_password = get_password_hash(plain_password)

\* The classes an exception is an instance of.  The custom exceptions are the
\* classes error_handler.py imports: ConflictException and
\* NotFoundOrAccessException, each an ordinary exception beside the custom
\* base class, neither an HTTPException nor an IntegrityError
ClassesOf(class) ==
    CASE class = "ConflictException" ->
             {"ConflictException", "CustomBaseException", "Exception"}
      [] class = "NotFoundOrAccessException" ->
             {"NotFoundOrAccessException", "CustomBaseException", "Exception"}
      [] class = "IntegrityError" -> {"IntegrityError", "Exception"}
      [] class = "HTTPException" -> {"HTTPException", "Exception"}
      [] class = "OverflowError" -> {"OverflowError", "Exception"}

IsInstance(exc, class) == class \in ClassesOf(exc.class)

ConflictException == [class |-> "ConflictException", status_code |-> 0]

NotFoundOrAccessException == [class |-> "NotFoundOrAccessException", status_code |-> 0]

IntegrityError == [class |-> "IntegrityError", status_code |-> 0]

HTTPException(status_code) == [class |-> "HTTPException", status_code |-> status_code]

\* The response to an exception that leaves a handler: FastAPI answers an
\* HTTPException with its status code; ErrorHandlerMiddleware.dispatch
\* answers the others by the first except clause that matches
ErrorResponse(exc) ==
    IF IsInstance(exc, "HTTPException")
    THEN [status |-> exc.status_code, type |-> "http"]
    ELSE IF IsInstance(exc, "NotFoundOrAccessException")
    THEN [status |-> 404, type |-> "not_found_or_access"]
    ELSE IF IsInstance(exc, "ConflictException")
    THEN [status |-> 409, type |-> "conflict"]
    ELSE IF IsInstance(exc, "CustomBaseException")
    THEN [status |-> 500, type |-> "custom_error"]
    ELSE [status |-> 500, type |-> "internal_error"]

\* What leaves the try block of register_user and of update_user_info when
\* exc is raised inside it:
\*   except IntegrityError: rollback; raise ConflictException
\*   except Exception:      rollback; raise HTTPException(500)
ExceptUser(exc) ==
    IF IsInstance(exc, "IntegrityError") THEN ConflictException
    ELSE IF IsInstance(exc, "Exception") THEN HTTPException(500)
    ELSE exc

\* select(User).filter(User.email == email)
UsersByEmail(table, email) == {i \in DOMAIN table : table[i].email = email}

\* select(User).filter(User.email == email, User.id != user_id)
OtherUsersByEmail(table, email, user_id) == UsersByEmail(table, email) \ {user_id}

\* users.email is declared unique=True: the database refuses a write that
\* would leave a second row with the email (IntegrityError)
EmailNotUnique(table, user_id, email) == FALSE

EmailTaken(table, user_id, email) ==
    \E i \in DOMAIN table : i # user_id /\ table[i].email = email

\* get_current_user: the user of the token, or None (401)
get_current_user(table, user_id) ==
    IF user_id \in DOMAIN table THEN Some(user_id) ELSE None

\* register_user up to the insert: the exception its check raises, or None
register_check(table, user_data) ==
    IF UsersByEmail(table, user_data.email) # {}
    THEN Some(ExceptUser(ConflictException))
    ELSE None

NewUser(user_data) ==
    [email |-> user_data.email,
     hashed_password |-> get_password_hash(user_data.password),
     full_name |-> user_data.full_name]

\* db.add(new_user); await db.commit(): the table afterwards and the
\* exception that leaves the handler, if any
register_commit(table, user_data) ==
    IF EmailTaken(table, 0, user_data.email)
    THEN [users |-> table, exc |-> Some(ExceptUser(IntegrityError))]
    ELSE [users |-> Append(table, NewUser(user_data)), exc |-> None]

\* update_user_info up to the UPDATE: the exception raised, or None
update_check(table, current_user, user_id, user_update) ==
    IF get_current_user(table, current_user) = None THEN Some(HTTPException(401))
    ELSE IF current_user # user_id THEN Some(HTTPException(403))
    ELSE IF user_id \notin DOMAIN table THEN Some(NotFoundOrAccessException)
    ELSE IF /\ user_update.email # None
            /\ OtherUsersByEmail(table, user_update.email[1], user_id) # {}
    THEN Some(ExceptUser(ConflictException))
    ELSE None

\* update(User).where(User.id == user_id).values(**update_data)
UpdatedUser(user, user_update) ==
    [user EXCEPT !.email = IF user_update.email = None THEN @
                           ELSE user_update.email[1],
                 !.full_name = IF user_update.full_name = None THEN @
                               ELSE user_update.full_name]

update_write(table, user_id, user_update) ==
    IF user_update.email # None /\ EmailTaken(table, user_id, user_update.email[1])
    THEN [users |-> table, exc |-> Some(ExceptUser(IntegrityError))]
    ELSE [users |-> [table EXCEPT ![user_id] = UpdatedUser(@, user_update)],
          exc |-> None]

\* A request in flight: pc is "check" before the handler's reads, "write"
\* between its reads and its write, "done" once it has answered; id is the
\* id of the UserResponse of an answer 200 or 201
NewSession(op, current_user, user_id, body) ==
    [op |-> op, user |-> current_user, user_id |-> user_id, body |-> body,
     pc |-> "check", status |-> 0, type |-> "none", id |-> 0]

Answered(s, status, type) == [s EXCEPT !.pc = "done", !.status = status, !.type = type]

Failed(s, exc) == Answered(s, ErrorResponse(exc).status, ErrorResponse(exc).type)

InitAccounts ==
    /\ users = << >>
    /\ child_seq = 0
    /\ sessions = << >>
    /\ TrendIdle /\ PctIdle /\ GrowthIdle /\ StatsIdle /\ NutritionParked

StartRegister ==
    /\ Len(sessions) < MaxSessions
    /\ \E body \in RegisterBodies :
          sessions' = Append(sessions, NewSession("register_user", 0, 0, body))
    /\ UNCHANGED <<users, child_seq, notAccount>>

StartUpdate ==
    /\ Len(sessions) < MaxSessions
    /\ \E r \in UpdateRequests :
          sessions' = Append(sessions, NewSession("update_user_info", r[1], r[2], r[3]))
    /\ UNCHANGED <<users, child_seq, notAccount>>

CheckStep ==
    /\ \E i \in DOMAIN sessions :
          LET s == sessions[i]
              exc == IF s.op = "register_user"
                     THEN register_check(users, s.body)
                     ELSE update_check(users, s.user, s.user_id, s.body)
          IN  /\ s.pc = "check"
              /\ sessions' = [sessions EXCEPT ![i] =
                     IF exc = None THEN [s EXCEPT !.pc = "write"]
                     ELSE Failed(s, exc[1])]
    /\ UNCHANGED <<users, child_seq, notAccount>>

RegisterCommit ==
    /\ \E i \in DOMAIN sessions :
          LET s == sessions[i]
              r == register_commit(users, s.body)
          IN  /\ s.op = "register_user" /\ s.pc = "write"
              /\ r.exc = None => Len(users) < MaxUsers
              /\ users' = r.users
              /\ sessions' = [sessions EXCEPT ![i] =
                     IF r.exc = None
                     THEN [Answered(s, 201, "user") EXCEPT !.id = Len(r.users)]
                     ELSE Failed(s, r.exc[1])]
    /\ UNCHANGED <<child_seq, notAccount>>

UpdateWrite ==
    /\ \E i \in DOMAIN sessions :
          LET s == sessions[i]
              r == update_write(users, s.user_id, s.body)
          IN  /\ s.op = "update_user_info" /\ s.pc = "write"
              /\ users' = r.users
              /\ sessions' = [sessions EXCEPT ![i] =
                     IF r.exc = None
                     THEN [Answered(s, 200, "user") EXCEPT !.id = s.user_id]
                     ELSE Failed(s, r.exc[1])]
    /\ UNCHANGED <<child_seq, notAccount>>

NextAccounts ==
    \/ StartRegister
    \/ StartUpdate
    \/ CheckStep
    \/ RegisterCommit
    \/ UpdateWrite

SpecAccounts == InitAccounts /\ [][NextAccounts]_vars

----------------------------------------------------------------------------
(* The whole API, one request at a time: users, their children, and the    *)
(* growth and meal logs of the children.  One user is registered at the    *)
(* start; the meal dates have four-digit years, which strftime formats the *)
(* same on every platform                                                  *)

\* Bound: rows created in one run in the tables children, growth_logs and
\* nutrition_logs together
MaxFamilyRows == 2

NoResponse == [op |-> "none", status |-> 0]

\* ChildCreate bodies
ChildBodies == {[name |-> "Ann", age |-> Some(25)]}

\* ChildUpdate bodies: every field is optional
ChildUpdates == {[name |-> None, age |-> Some(30)]}

\* UserLogin bodies
LoginBodies ==
    {[email |-> "a@x.org", password |-> "pw"], [email |-> "a@x.org", password |-> "no"]}

FamilyGrowthBodies == OtherGrowthBodies

FamilyMealBodies == OtherNutritionBodies

FamilyDays == {7}

\* The answer to a request that ends in exception exc
Refused(op, current_user, child_id, exc) ==
    [op |-> op, user |-> current_user, child_id |-> child_id,
     status |-> ErrorResponse(exc).status]

\* ChildResponse.from_orm(child)
ChildResponse(table, id) ==
    [id |-> id, name |-> table[id].name, age |-> table[id].age,
     parent_id |-> table[id].parent_id]

\* register_user, its check and its commit one after the other
register_user(user_data) ==
    LET exc == register_check(users, user_data)
        r == register_commit(users, user_data)
    IN  IF exc # None
        THEN /\ response' = Refused("register_user", 0, 0, exc[1])
             /\ UNCHANGED users
        ELSE /\ r.exc = None => Len(users) < MaxUsers
             /\ users' = r.users
             /\ response' = IF r.exc # None
                            THEN Refused("register_user", 0, 0, r.exc[1])
                            ELSE [op |-> "register_user", user |-> 0, child_id |-> 0,
                                  status |-> 201,
                                  body |-> [id |-> Len(r.users),
                                            email |-> user_data.email]]

\* login_user: the token names the user (sub) the email and password belong to
login_user(user_credentials) ==
    LET found == {i \in UsersByEmail(users, user_credentials.email) :
                     verify_password(user_credentials.password,
                                     users[i].hashed_password)}
    IN  /\ response' =
               IF found = {}
               THEN Refused("login_user", 0, 0, HTTPException(401))
               ELSE [op |-> "login_user", user |-> 0, child_id |-> 0, status |-> 200,
                     body |-> [sub |-> CHOOSE i \in found : TRUE]]
        /\ UNCHANGED users

add_child(current_user, child_data) ==
    LET id == child_seq + 1
        table == children @@ (id :> [name |-> child_data.name,
                                     age |-> child_data.age,
                                     parent_id |-> current_user])
    IN  /\ children' = table
        /\ child_seq' = id
        /\ response' = [op |-> "add_child", user |-> current_user, child_id |-> id,
                        status |-> 201, body |-> ChildResponse(table, id)]

\* select(Child).filter(Child.parent_id == current_user.id): no order is asked
\* for, so the body is taken as the set of the rows
list_children(current_user) ==
    /\ response' = [op |-> "list_children", user |-> current_user, child_id |-> 0,
                    status |-> 200,
                    body |-> {ChildResponse(children, id) :
                                 id \in {i \in DOMAIN children :
                                            children[i].parent_id = current_user}}]
    /\ UNCHANGED <<children, child_seq>>

\* The check the three child handlers start with: the exception raised, or None
child_access_any(child_id, current_user) ==
    IF child_id \notin DOMAIN children THEN Some(NotFoundOrAccessException)
    ELSE None

child_access(child_id, current_user) ==
    IF child_id \notin DOMAIN children THEN Some(NotFoundOrAccessException)
    ELSE IF children[child_id].parent_id # current_user THEN Some(HTTPException(403))
    ELSE None

get_child_details(current_user, child_id) ==
    LET exc == child_access(child_id, current_user)
    IN  /\ response' =
               IF exc # None
               THEN Refused("get_child_details", current_user, child_id, exc[1])
               ELSE [op |-> "get_child_details", user |-> current_user,
                     child_id |-> child_id, status |-> 200,
                     body |-> ChildResponse(children, child_id)]
        /\ UNCHANGED <<children, child_seq>>

\* update(Child).where(Child.id == child_id).values(**update_data)
UpdatedChild(child, child_update) ==
    [child EXCEPT !.name = IF child_update.name = None THEN @
                           ELSE child_update.name[1],
                  !.age = IF child_update.age = None THEN @ ELSE child_update.age]

update_child_info(current_user, child_id, child_update) ==
    LET exc == child_access(child_id, current_user)
        table == [children EXCEPT ![child_id] = UpdatedChild(@, child_update)]
    IN  /\ IF exc # None
           THEN /\ response' = Refused("update_child_info", current_user, child_id,
                                       exc[1])
                /\ UNCHANGED children
           ELSE /\ children' = table
                /\ response' = [op |-> "update_child_info", user |-> current_user,
                                child_id |-> child_id, status |-> 200,
                                body |-> ChildResponse(table, child_id)]
        /\ UNCHANGED child_seq

\* growth_logs.child_id and nutrition_logs.child_id are declared
\* ForeignKey("children.id"): the database refuses (IntegrityError) to delete
\* a child that a log row refers to
ReferencedNever(child_id) == FALSE

Referenced(child_id) ==
    \/ \E i \in DOMAIN growth_logs : growth_logs[i].child_id = child_id
    \/ \E i \in DOMAIN nutrition_table : nutrition_table[i].child_id = child_id

\* What leaves the try block of remove_child_record when exc is raised in it:
\* both except clauses raise HTTPException(500)
ExceptChild(exc) ==
    IF IsInstance(exc, "Exception") THEN HTTPException(500) ELSE exc

remove_child_record(current_user, child_id) ==
    LET exc == child_access(child_id, current_user)
    IN  /\ IF exc # None
           THEN /\ response' = Refused("remove_child_record", current_user,
                                       child_id, exc[1])
                /\ UNCHANGED children
           ELSE IF Referenced(child_id)
           THEN /\ response' = Refused("remove_child_record", current_user,
                                       child_id, ExceptChild(IntegrityError))
                /\ UNCHANGED children
           ELSE /\ children' = [i \in DOMAIN children \ {child_id} |-> children[i]]
                /\ response' = [op |-> "remove_child_record", user |-> current_user,
                                child_id |-> child_id, status |-> 204]
        /\ UNCHANGED child_seq

Reversed(s) == [i \in 1..Len(s) |-> s[Len(s) + 1 - i]]

\* select(Growth).where(Growth.child_id == child_id)
\* .order_by(desc(Growth.measurement_date)): every row list the database may
\* return
GrowthHistoryQuery(logs, child_id) ==
    {Reversed(rows) : rows \in AscendingByDate(logs, GrowthIdsOf(logs, child_id))}

get_child_growth_history(current_user, child_id) ==
    LET child == verify_child_parent(child_id, current_user)
    IN  /\ IF child = None
           THEN response' = NotFound("get_child_growth_history", current_user,
                                     child_id)
           ELSE \E rows \in GrowthHistoryQuery(growth_logs, child_id) :
                    response' = [op |-> "get_child_growth_history",
                                 user |-> current_user, child_id |-> child_id,
                                 status |-> 200, body |-> rows]
        /\ UNCHANGED <<children, growth_logs>>

\* select(Nutrition).where(Nutrition.child_id == child_id)
\* .order_by(desc(Nutrition.meal_date))
NutritionHistoryQuery(table, child_id) ==
    {Reversed(rows) :
        rows \in AscendingByMealDate(table,
                     {i \in DOMAIN table : table[i].child_id = child_id})}

\* Each row is answered with its food_items parsed; json.loads raises on a
\* text that is no JSON
get_nutrition_history(current_user, child_id) ==
    LET child == verify_child_parent(child_id, current_user)
    IN  /\ IF child = None
           THEN summary_response' = NotFound("get_nutrition_history", current_user,
                                             child_id)
           ELSE \E rows \in NutritionHistoryQuery(nutrition_table, child_id) :
                    summary_response' =
                        IF \E i \in DOMAIN rows : json_loads(rows[i].food_items) = None
                        THEN InternalError("get_nutrition_history", current_user,
                                           child_id, 0)
                        ELSE [op |-> "get_nutrition_history", user |-> current_user,
                              child_id |-> child_id, status |-> 200,
                              body |-> [i \in DOMAIN rows |->
                                  [rows[i] EXCEPT !.food_items =
                                      json_loads(rows[i].food_items)[1]]]]
        /\ UNCHANGED nutrition_table

RowsCreated == child_seq + Len(growth_logs) + Len(nutrition_table)

\* The child ids requests name: every id handed out, and the next one, which
\* no child has
RequestedChildIds == 1..(child_seq + 1)

\* The variables no request of the API touches
notFamily == <<trendVars, pctVars, statsVars, nutritionVars, platformVars,
               recVars, sessions>>

InitFamily ==
    /\ users = <<NewUser([email |-> "a@x.org", password |-> "pw", full_name |-> None])>>
    /\ children = << >>
    /\ child_seq = 0
    /\ growth_logs = << >>
    /\ nutrition_table = << >>
    /\ response = NoResponse
    /\ summary_response = NoResponse
    /\ sessions = << >>
    /\ strftime_pads_year = TRUE
    /\ TrendIdle /\ PctIdle /\ StatsIdle /\ NutritionIdle /\ RecIdle

\* A request is answered in response (users, children, growth) or in
\* summary_response (nutrition); the other of the two is cleared
RegisterUser ==
    /\ \E body \in RegisterBodies : register_user(body)
    /\ summary_response' = NoResponse
    /\ UNCHANGED <<children, child_seq, growth_logs, nutrition_table, notFamily>>

LoginUser ==
    /\ \E body \in LoginBodies : login_user(body)
    /\ summary_response' = NoResponse
    /\ UNCHANGED <<children, child_seq, growth_logs, nutrition_table, notFamily>>

AddChild ==
    /\ RowsCreated < MaxFamilyRows
    /\ \E u \in DOMAIN users, body \in ChildBodies : add_child(u, body)
    /\ summary_response' = NoResponse
    /\ UNCHANGED <<users, growth_logs, nutrition_table, notFamily>>

ListChildren ==
    /\ \E u \in DOMAIN users : list_children(u)
    /\ summary_response' = NoResponse
    /\ UNCHANGED <<users, growth_logs, nutrition_table, notFamily>>

GetChildDetails ==
    /\ \E u \in DOMAIN users, c \in RequestedChildIds : get_child_details(u, c)
    /\ summary_response' = NoResponse
    /\ UNCHANGED <<users, growth_logs, nutrition_table, notFamily>>

UpdateChildInfo ==
    /\ \E u \in DOMAIN users, c \in RequestedChildIds, body \in ChildUpdates :
          update_child_info(u, c, body)
    /\ summary_response' = NoResponse
    /\ UNCHANGED <<users, growth_logs, nutrition_table, notFamily>>

RemoveChildRecord ==
    /\ \E u \in DOMAIN users, c \in RequestedChildIds : remove_child_record(u, c)
    /\ summary_response' = NoResponse
    /\ UNCHANGED <<users, growth_logs, nutrition_table, notFamily>>

PostGrowthLog ==
    /\ \E u \in DOMAIN users, c \in RequestedChildIds, data \in FamilyGrowthBodies :
          /\ verify_child_parent(c, u) # None => RowsCreated < MaxFamilyRows
          /\ add_growth_log(u, c, data)
    /\ summary_response' = NoResponse
    /\ UNCHANGED <<users, child_seq, nutrition_table, notFamily>>

GetChildGrowthHistory ==
    /\ \E u \in DOMAIN users, c \in RequestedChildIds : get_child_growth_history(u, c)
    /\ summary_response' = NoResponse
    /\ UNCHANGED <<users, child_seq, nutrition_table, notFamily>>

GetChildGrowthAnalysis ==
    /\ \E u \in DOMAIN users, c \in RequestedChildIds : get_growth_analysis(u, c)
    /\ summary_response' = NoResponse
    /\ UNCHANGED <<users, child_seq, nutrition_table, notFamily>>

PostMealLog ==
    /\ \E u \in DOMAIN users, c \in RequestedChildIds, data \in FamilyMealBodies :
          /\ verify_child_parent(c, u) # None => RowsCreated < MaxFamilyRows
          /\ add_meal_log(u, c, data)
    /\ response' = NoResponse
    /\ UNCHANGED <<users, children, child_seq, growth_logs, notFamily>>

GetNutritionHistory ==
    /\ \E u \in DOMAIN users, c \in RequestedChildIds : get_nutrition_history(u, c)
    /\ response' = NoResponse
    /\ UNCHANGED <<users, children, child_seq, growth_logs, notFamily>>

GetChildNutritionSummary ==
    /\ \E u \in DOMAIN users, c \in RequestedChildIds, days \in FamilyDays :
          get_nutrition_summary(u, c, days)
    /\ response' = NoResponse
    /\ UNCHANGED <<users, children, child_seq, growth_logs, notFamily>>

NextFamily ==
    \/ RegisterUser
    \/ LoginUser
    \/ AddChild
    \/ ListChildren
    \/ GetChildDetails
    \/ UpdateChildInfo
    \/ RemoveChildRecord
    \/ PostGrowthLog
    \/ GetChildGrowthHistory
    \/ GetChildGrowthAnalysis
    \/ PostMealLog
    \/ GetNutritionHistory
    \/ GetChildNutritionSummary

SpecFamily == InitFamily /\ [][NextFamily]_vars

----------------------------------------------------------------------------
(* Claims about calculate_trend (SpecTrend)                                *)

\* The classification of the claim: the last min(3, n) values, the average of
\* their consecutive differences (computed in doubles, as the values are)
\* against 0.5 and -0.5
ReferenceTrend(xs) ==
    LET n == Len(xs)
        k == IF n < 3 THEN n ELSE 3
        w == [i \in 1..k |-> xs[n - k + i]]
        first == FloatSub(w[2], w[1])
        second == FloatSub(w[3], w[2])
        sum == IF k = 2 THEN first
               ELSE FloatRound(first[1] + second[1], first[2] + second[2])
    IN  IF n < 2 THEN "insufficient_data"
        ELSE IF AboveThreshold(sum, k - 1, 50) THEN "increasing"
        ELSE IF BelowThreshold(sum, k - 1, 50) THEN "decreasing"
        ELSE "stable"

\* C2: calculate_trend returns the reference classification for every input:
\* "insufficient_data" below 2 values, else the average consecutive difference
\* of the last min(3, n) values is "increasing" iff > 0.5, "decreasing" iff
\* < -0.5, "stable" otherwise (exactly 0.5 and -0.5 included).
C2_TrendMatchesReference ==
    trend_result # Pending =>
        /\ trend_result = ReferenceTrend(measurements)
        /\ (measurements = Floats(<<1000, 1000>>) => trend_result = "stable")
        /\ (measurements = Floats(<<1000, 1100>>) => trend_result = "increasing")
        /\ (measurements = Floats(<<1000, 900>>) => trend_result = "decreasing")
        /\ (measurements \in {Floats(<<1000, 1050>>), Floats(<<1000, 950>>),
                              Floats(<<1000, 1050, 1100>>),
                              Floats(<<1100, 1050, 1000>>)}
                => trend_result = "stable")

\* C2 witness: a window of 3 whose average change is exactly 0.5 was
\* classified "stable"
C2_Witness ==
    /\ measurements = Floats(<<900, 1000, 1050, 1100>>)
    /\ trend_result = "stable"

\* C3: for every sequence of length >= 3 the result equals the result on its
\* last 3 elements alone, so older values never change it; [0,0,0,10,11]
\* gives "increasing".
C3_OnlyLastThree ==
    (trend_result # Pending /\ Len(measurements) >= 3) =>
        /\ trend_result =
              calculate_trend(SubSeq(measurements, Len(measurements) - 2,
                                     Len(measurements)))
        /\ \A older \in TrendValues :
              calculate_trend(<<older>> \o measurements) = trend_result
        /\ (measurements = Floats(<<0, 0, 0, 1000, 1100>>)
                => trend_result = "increasing")

\* C3 witness: the history [0, 0, 0, 10, 11] was classified "increasing"; its
\* whole-history average (2.75) and its last-3 average (5.5) are both above 0.5
C3_Witness ==
    /\ measurements = Floats(<<0, 0, 0, 1000, 1100>>)
    /\ trend_result = "increasing"

\* last - third-from-last of a window of three, as a double
WindowSpan(xs) == FloatSub(xs[Len(xs)], xs[Len(xs) - 2])

\* C28 as claimed: for a sequence of length >= 3 the result is "increasing"
\* iff (last - third-from-last) > 1.0, "decreasing" iff it is < -1.0 and
\* "stable" otherwise, so that replacing the second-to-last value never
\* changes the result; for length 2 the result is decided by (last - first)
\* against 0.5 and -0.5.
C28_FirstAndLastOnlyClaim ==
    trend_result # Pending =>
        /\ Len(measurements) >= 3 =>
              /\ trend_result = "increasing"
                     <=> AboveThreshold(WindowSpan(measurements), 2, 50)
              /\ trend_result = "decreasing"
                     <=> BelowThreshold(WindowSpan(measurements), 2, 50)
              /\ trend_result \in {"increasing", "decreasing", "stable"}
              /\ \A middle \in TrendValues :
                    calculate_trend([measurements EXCEPT
                                        ![Len(measurements) - 1] = middle])
                        = trend_result
        /\ Len(measurements) = 2 =>
              LET span == FloatSub(measurements[2], measurements[1])
              IN  /\ trend_result = "increasing" <=> AboveThreshold(span, 1, 50)
                  /\ trend_result = "decreasing" <=> BelowThreshold(span, 1, 50)
                  /\ trend_result \in {"increasing", "decreasing", "stable"}

----------------------------------------------------------------------------
(* Claims about calculate_percentile (SpecPercentile)                      *)

\* C7: the result is clamp(50 + 34.13 * (value - mean) / std, 0, 100) rounded
\* to 1 decimal: it lies in [0, 100], it is a nearest tenth of the clamped
\* value, it is 50.0 when the value is the table mean (height 75.0 at 12
\* months), and it is non-decreasing in the value for a fixed metric and age.
C7_PercentileFormula ==
    pct_result # None =>
        LET p == pct_result[1]
            m == pct_args.measurement
            t == pct_args.measurement_type
            a == pct_args.age_months
            stats == percentiles(t, closest_age(a))
            num == 5000 * stats.std + (m - stats.mean) * 3413
            den == 10 * stats.std
        IN  /\ 0 <= p /\ p <= 1000
            /\ IF num <= 0 THEN p = 0
               ELSE IF num >= 1000 * den THEN p = 1000
               ELSE 2 * Abs(p * den - num) <= den
            /\ (m = stats.mean => p = 500)
            /\ ((m = 7500 /\ t = "height" /\ a = 12) => p = 500)
            /\ \A v \in PctValues :
                  v >= m => calculate_percentile(v, t, a) >= p

\* C7 witness: height 75.0 at 12 months gave 50.0, and a larger value that is
\* clamped at 100 exists for the same metric and age
C7_Witness ==
    /\ pct_result = Some(500)
    /\ pct_args = [measurement |-> 7500, measurement_type |-> "height",
                   age_months |-> 12]
    /\ calculate_percentile(30000, "height", 12) = 1000

\* The reference age of the claim: 12 up to 18 months, 24 from 19 to 30, 36
\* from 31 on
BandAge(age_months) ==
    IF age_months <= 18 THEN 12 ELSE IF age_months <= 30 THEN 24 ELSE 36

\* C25: for each metric the result is computed from the entry of the
\* reference age among 12, 24 and 36 that is nearest to age_months, the lower
\* one on a tie: the 12-month entry up to age 18, the 24-month entry for ages
\* 19..30, the 36-month entry from age 31 on.
C25_ClosestReferenceAge ==
    pct_result # None =>
        LET a == pct_args.age_months
            band == BandAge(a)
            stats == percentiles(pct_args.measurement_type, band)
        IN  /\ \A other \in {12, 24, 36} :
                  \/ Abs(band - a) < Abs(other - a)
                  \/ Abs(band - a) = Abs(other - a) /\ band <= other
            /\ closest_age(a) = band
            /\ pct_result[1] =
                  Max2(0, Min2(1000,
                      RoundHalfEven(5000 * stats.std
                                        + (pct_args.measurement - stats.mean) * 3413,
                                    10 * stats.std)))

\* C25 witness: at 18 months, as far from 12 as from 24, a height of 75.0 cm
\* gave 50.0, the value of the 12-month entry (the 24-month entry gives 0.0)
C25_Witness ==
    /\ pct_args = [measurement |-> 7500, measurement_type |-> "height",
                   age_months |-> 18]
    /\ pct_result = Some(500)

----------------------------------------------------------------------------
(* Claims about get_growth_analysis (Spec)                                 *)

\* The last request was a get_growth_analysis that returned GrowthStats
IsAnalysis ==
    response.op = "get_growth_analysis" /\ response.status = 200

\* The fields of GrowthStats that belong to a metric
LatestField(body, metric) ==
    CASE metric = "height_cm" -> body.latest_height_cm
      [] metric = "weight_kg" -> body.latest_weight_kg
      [] metric = "head_circumference_cm" -> body.latest_head_circumference_cm

TrendField(body, metric) ==
    CASE metric = "height_cm" -> body.height_trend
      [] metric = "weight_kg" -> body.weight_trend
      [] metric = "head_circumference_cm" -> body.head_circumference_trend

PercentileField(body, metric) ==
    CASE metric = "height_cm" -> body.height_percentile
      [] metric = "weight_kg" -> body.weight_percentile
      [] metric = "head_circumference_cm" -> body.head_circumference_percentile

TypeOfMetric(metric) ==
    CASE metric = "height_cm" -> "height"
      [] metric = "weight_kg" -> "weight"
      [] metric = "head_circumference_cm" -> "head_circumference"

\* The age the analysis works with: a missing age counts as 12 months
AnalysisAge(child_id) ==
    IF children[child_id].age = None THEN 12 ELSE children[child_id].age[1]

\* The positions of rows that hold a value of the metric
HoldersOf(rows, metric) == {i \in 1..Len(rows) : rows[i][metric] # None}

\* The metric's non-null values in the order of rows: the k-th value is the
\* one at the position with exactly k - 1 holders before it
ValuesInOrder(rows, metric) ==
    LET held == HoldersOf(rows, metric)
    IN  [k \in 1..Cardinality(held) |->
            LET i == CHOOSE j \in held :
                        Cardinality({h \in held : h < j}) = k - 1
            IN  rows[i][metric][1]]

\* C1 (as claimed): whenever some record of the child holds a metric, the
\* latest value reported is the value of a most recent record that holds it,
\* and for an age <= 36 the percentile is present and computed from that value,
\* even when the newest record omits the metric.
C1_LatestNonNullClaim ==
    IsAnalysis =>
        \A metric \in Metrics :
            LET rows == response.rows
                held == HoldersOf(rows, metric)
                newest == {i \in held : \A j \in held :
                              rows[j].measurement_date <= rows[i].measurement_date}
                months == AnalysisAge(response.child_id)
            IN  held # {} =>
                    /\ LatestField(response.body, metric)
                          \in {rows[i][metric] : i \in newest}
                    /\ months <= 36 =>
                          PercentileField(response.body, metric)
                              \in {Some(calculate_percentile(rows[i][metric][1],
                                                             TypeOfMetric(metric),
                                                             months)) : i \in newest}

\* C4: for a non-empty history each metric's trend is calculate_trend of the
\* metric's non-null values in ascending measurement_date order, nulls
\* skipped; it is "no_data" exactly when no record holds the metric and
\* "insufficient_data" exactly when exactly one does.
C4_TrendOfNonNullValues ==
    (IsAnalysis /\ response.rows # << >>) =>
        \A metric \in Metrics :
            LET rows == response.rows
                values == ValuesInOrder(rows, metric)
                trend == TrendField(response.body, metric)
            IN  /\ \A i, j \in 1..Len(rows) :
                      i < j => rows[i].measurement_date <= rows[j].measurement_date
                /\ (trend = "no_data") <=> (Len(values) = 0)
                /\ (trend = "insufficient_data") <=> (Len(values) = 1)
                /\ Len(values) >= 2 => trend = ReferenceTrend(Floats(values))

\* C4 witness: three records, the middle one without a height, and the height
\* trend computed from the two heights around it
C4_Witness ==
    /\ IsAnalysis
    /\ Len(response.rows) = 3
    /\ response.rows[1].height_cm = Some(7000)
    /\ response.rows[2].height_cm = None
    /\ response.rows[3].height_cm = Some(7200)
    /\ response.body.height_trend = "increasing"
    /\ response.body.head_circumference_trend = "insufficient_data"

\* C5 (SpecStats): the metrics are independent: changing the value (present
\* or null) of one metric in a record of a history leaves the latest value,
\* the trend and the percentile of each of the other two metrics as they are.
\* The histories of SpecStats hold every combination of the metric values, so
\* any two of them that differ in one metric only are linked by such changes
\* of one record, and the same then holds between them.
C5_MetricsIndependent ==
    stats_result # None =>
        LET rows == stats_args.rows
            body == stats_result[1]
        IN  \A metric \in Metrics :
                \A i \in 1..Len(rows) :
                    \A v \in MetricValues(metric) \ {rows[i][metric]} :
                        LET other == [rows EXCEPT ![i][metric] = v]
                            stats == GrowthStatsOf(other, stats_args.age)
                        IN  \A m \in Metrics \ {metric} :
                                /\ LatestField(stats, m) = LatestField(body, m)
                                /\ TrendField(stats, m) = TrendField(body, m)
                                /\ PercentileField(stats, m) = PercentileField(body, m)

\* C5 witness: a history whose newest record has no height and whose weight
\* still has a latest value, a trend and a percentile
C5_Witness ==
    /\ stats_result # None
    /\ Len(stats_args.rows) = 3
    /\ stats_args.rows[1].height_cm = Some(7000)
    /\ stats_args.rows[3].height_cm = None
    /\ stats_result[1].height_trend = "insufficient_data"
    /\ stats_result[1].latest_weight_kg = Some(950)
    /\ stats_result[1].weight_trend = "stable"
    /\ stats_result[1].weight_percentile # None

\* C6: the analysis of an owned child without growth records raises no error
\* and returns total_measurements = 0, the three trends "no_data", and no
\* latest value and no percentile.
C6_EmptyHistory ==
    (/\ response.op = "get_growth_analysis"
     /\ verify_child_parent(response.child_id, response.user) # None
     /\ GrowthIdsOf(growth_logs, response.child_id) = {}) =>
        /\ response.status = 200
        /\ response.body.total_measurements = 0
        /\ \A metric \in Metrics :
              /\ TrendField(response.body, metric) = "no_data"
              /\ LatestField(response.body, metric) = None
              /\ PercentileField(response.body, metric) = None

\* C6 witness: an analysis of child 1 answered while the only stored record
\* belongs to child 2
C6_Witness ==
    /\ IsAnalysis
    /\ response.child_id = 1
    /\ Len(growth_logs) = 1
    /\ response.body.total_measurements = 0

\* C8: above 36 months the three percentiles are absent whatever was measured;
\* up to 36 months (a missing age counting as 12) a metric's percentile is
\* present iff the newest record holds a value of the metric.
C8_PercentileOnlyUpTo36 ==
    IsAnalysis =>
        LET months == AnalysisAge(response.child_id)
            rows == response.rows
        IN  \A metric \in Metrics :
                /\ months > 36 => PercentileField(response.body, metric) = None
                /\ (months <= 36 /\ rows # << >>) =>
                      ((PercentileField(response.body, metric) # None)
                          <=> (rows[Len(rows)][metric] # None))

\* C8 witness: a child of 37 months whose newest record holds a height, and
\* no height percentile
C8_Witness ==
    /\ IsAnalysis
    /\ children[response.child_id].age = Some(37)
    /\ response.rows # << >>
    /\ response.rows[Len(response.rows)].height_cm # None
    /\ response.body.latest_height_cm # None
    /\ response.body.height_percentile = None

\* The number of stored rows of the child equal to the record r
StoredCount(child_id, r) ==
    Cardinality({i \in GrowthIdsOf(growth_logs, child_id) : growth_logs[i] = r})

\* C9: the statistics are never stale: total_measurements is the number of
\* growth logs stored for the child now, and the trends are computed over all
\* of them in measurement_date order, not insertion order; height 70 on day 1
\* and 72 on day 2 give total_measurements = 2 and height_trend "increasing".
C9_StatsAreFresh ==
    IsAnalysis =>
        LET rows == response.rows
            stored == GrowthIdsOf(growth_logs, response.child_id)
        IN  /\ response.body.total_measurements = Cardinality(stored)
            /\ Len(rows) = Cardinality(stored)
            /\ \A i \in stored :
                  Cardinality({k \in 1..Len(rows) : rows[k] = growth_logs[i]})
                      = StoredCount(response.child_id, growth_logs[i])
            /\ \A i, j \in 1..Len(rows) :
                  i < j => rows[i].measurement_date <= rows[j].measurement_date
            /\ \A metric \in Metrics :
                  TrendField(response.body, metric) =
                      (IF HoldersOf(rows, metric) = {} THEN "no_data"
                       ELSE calculate_trend(Floats(ValuesInOrder(rows, metric))))
            /\ ({<<growth_logs[i].height_cm, growth_logs[i].measurement_date>> :
                    i \in stored} = {<<Some(7000), 1>>, <<Some(7200), 2>>}
                /\ Cardinality(stored) = 2)
                  => (/\ response.body.total_measurements = 2
                      /\ response.body.height_trend = "increasing")

\* C9 witness: height 72 on day 2 was stored first and height 70 on day 1
\* second, and the analysis reports 2 measurements and "increasing"
C9_Witness ==
    /\ IsAnalysis
    /\ response.child_id = 1
    /\ Len(growth_logs) = 2
    /\ growth_logs[1].height_cm = Some(7200) /\ growth_logs[1].measurement_date = 2
    /\ growth_logs[2].height_cm = Some(7000) /\ growth_logs[2].measurement_date = 1
    /\ response.body.total_measurements = 2
    /\ response.body.height_trend = "increasing"

----------------------------------------------------------------------------
(* Claims about calculate_daily_nutrition (SpecNutrition)                  *)

\* The number a string of digits spells
RECURSIVE NumberOf(_)
NumberOf(s) ==
    IF s = << >> THEN 0
    ELSE 10 * NumberOf(SubSeq(s, 1, Len(s) - 1)) + (s[Len(s)] - 48)

\* The calendar date a "year-month-day" string names, whatever the width of
\* its year
DateOfString(s) ==
    LET dash == CHOOSE i \in 1..Len(s) :
                    s[i] = 45 /\ \A j \in 1..(i - 1) : s[j] # 45
    IN  [year |-> NumberOf(SubSeq(s, 1, dash - 1)),
         month |-> NumberOf(SubSeq(s, dash + 1, dash + 2)),
         day |-> NumberOf(SubSeq(s, dash + 4, dash + 5))]

\* The calendar date of a point in time
CalendarDate(meal_date) ==
    [year |-> meal_date.year, month |-> meal_date.month, day |-> meal_date.day]

\* The positions of the input logs whose meal_date falls on the calendar date
LogsOn(date) ==
    {i \in 1..Len(nutrition_logs) :
        CalendarDate(nutrition_logs[i].meal_date) = date}

\* The sum of a nutrient over the logs at the positions, in hundredths, a null
\* counting as 0 (parts of a value below 10^-15 are left out: the totals are
\* compared to the nearest tenth)
RECURSIVE NutrientSum(_, _)
NutrientSum(positions, nutrient) ==
    IF positions = {} THEN 0
    ELSE LET i == CHOOSE j \in positions : TRUE
             x == nutrition_logs[i][nutrient]
         IN  (IF x = None THEN 0 ELSE x[1][1])
                 + NutrientSum(positions \ {i}, nutrient)

\* The nearest tenth of a value in hundredths (a tenth away by at most 0.05)
IsRounded(tenths, hundredths) ==
    /\ 10 * tenths - hundredths <= 5
    /\ hundredths - 10 * tenths <= 5

TotalField(summary, nutrient) ==
    CASE nutrient = "calories" -> summary.total_calories
      [] nutrient = "protein_g" -> summary.total_protein_g
      [] nutrient = "carbs_g" -> summary.total_carbs_g
      [] nutrient = "fat_g" -> summary.total_fat_g
      [] nutrient = "fiber_g" -> summary.total_fiber_g
      [] nutrient = "sodium_mg" -> summary.total_sodium_mg

RECURSIVE CountSum(_, _)
CountSum(counts, types) ==
    IF types = {} THEN 0
    ELSE LET t == CHOOSE u \in types : TRUE
         IN  counts[t] + CountSum(counts, types \ {t})

\* C10: in every DailyNutrition returned, each nutrient total is the sum,
\* rounded to 1 decimal, of the nutrient over exactly the input logs of that
\* calendar date (null as 0), meal_count is the number of those logs,
\* meals_by_type[t] is the number of those logs of meal type t, and the
\* meals_by_type counts add up to meal_count.
C10_DailyTotals ==
    daily_result # None =>
        \A k \in 1..Len(daily_result[1]) :
            LET summary == daily_result[1][k]
                on == LogsOn(DateOfString(summary.date))
            IN  /\ on # {}
                /\ \A nutrient \in Nutrients :
                      IsRounded(TotalField(summary, nutrient),
                                NutrientSum(on, nutrient))
                /\ summary.meal_count = Cardinality(on)
                /\ \A t \in MealTypes :
                      (IF t \in DOMAIN summary.meals_by_type
                       THEN summary.meals_by_type[t] ELSE 0)
                          = Cardinality({i \in on : nutrition_logs[i].meal_type = t})
                /\ CountSum(summary.meals_by_type, DOMAIN summary.meals_by_type)
                      = summary.meal_count

\* C10 witness: two breakfasts and a lunch of one day, out of time order, one
\* summary with the three totals added up (calories 100.25 + 200.50 + 50.25
\* = 351.0) and a null protein counted as 0 (5.25 + 10.00 = 15.25 -> 15.2)
C10_Witness ==
    /\ daily_result # None
    /\ Len(nutrition_logs) = 3
    /\ nutrition_logs[1].meal_date = DateTime(999, 12, 31, 19)
    /\ nutrition_logs[2].meal_date = DateTime(999, 12, 31, 12)
    /\ nutrition_logs[3].meal_date = DateTime(999, 12, 31, 8)
    /\ Len(daily_result[1]) = 1
    /\ daily_result[1][1].total_calories = 3510
    /\ daily_result[1][1].total_protein_g = 152
    /\ daily_result[1][1].meal_count = 3
    /\ daily_result[1][1].meals_by_type = [breakfast |-> 2, lunch |-> 1]

\* a is an earlier calendar date than b
DateBefore(a, b) ==
    \/ a.year < b.year
    \/ (a.year = b.year /\ a.month < b.month)
    \/ (a.year = b.year /\ a.month = b.month /\ a.day < b.day)

\* The distinct calendar dates of the input logs
InputDates ==
    {CalendarDate(nutrition_logs[i].meal_date) : i \in 1..Len(nutrition_logs)}

\* C11 (as claimed): the result holds exactly one DailyNutrition per distinct
\* calendar date of the input and no other, each date before the one after
\* it, whatever the order of the input logs; an empty input gives an empty
\* list.
C11_OnePerDateAscendingClaim ==
    daily_result # None =>
        LET out == daily_result[1]
        IN  /\ Len(out) = Cardinality(InputDates)
            /\ {DateOfString(out[k].date) : k \in 1..Len(out)} = InputDates
            /\ \A j, k \in 1..Len(out) :
                  j < k => DateBefore(DateOfString(out[j].date),
                                      DateOfString(out[k].date))
            /\ (nutrition_logs = << >> => out = << >>)

\* The logs of the input in the order p, a permutation of its positions
Reordered(p) == [i \in 1..Len(nutrition_logs) |-> nutrition_logs[p[i]]]

\* C12 (as claimed): every reordering of the input logs gives the same list
\* of daily summaries: the same dates, totals, meal counts and per-type
\* counts.
C12_ReorderingClaim ==
    daily_result # None =>
        \A p \in Permutations(1..Len(nutrition_logs)) :
            calculate_daily_nutrition(Reordered(p)) = daily_result[1]

----------------------------------------------------------------------------
(* Claims about get_nutrition_recommendations (SpecRec)                    *)

\* The list holds the message
Has(ms, m) == \E i \in 1..Len(ms) : ms[i] = m

\* The targets of the claim's age bands
BandCalories(age) ==
    CASE age <= 12 -> 800
      [] age > 12 /\ age <= 24 -> 1000
      [] age > 24 -> 1200

BandProtein(age) ==
    CASE age <= 12 -> 15
      [] age > 12 /\ age <= 24 -> 20
      [] age > 24 -> 25

\* C18: the targets follow the age band (<= 12: 800 / 15, 13..24: 1000 / 20,
\* above 24: 1200 / 25); the increase-calories message, carrying the band's
\* target, is in the list iff the average calories are below 80% of it, the
\* portion-control message iff they are above 120% of it, never both, and
\* neither from 80% to 120% inclusive; the increase-protein message, carrying
\* the band's target, is in the list iff the average protein is below 80% of it.
C18_AgeBandedTargets ==
    rec_result # None =>
        LET out == rec_result[1]
            avg == rec_args.avg_nutrition
            tc == BandCalories(rec_args.child_age)
            tp == BandProtein(rec_args.child_age)
        IN  /\ Has(out, IncreaseCalories(tc)) <=> (10 * avg.calories < 80 * tc)
            /\ \A t \in {800, 1000, 1200} \ {tc} : ~Has(out, IncreaseCalories(t))
            /\ Has(out, PortionControl) <=> (10 * avg.calories > 120 * tc)
            /\ ~(Has(out, IncreaseCalories(tc)) /\ Has(out, PortionControl))
            /\ (80 * tc <= 10 * avg.calories /\ 10 * avg.calories <= 120 * tc)
                  => (~Has(out, IncreaseCalories(tc)) /\ ~Has(out, PortionControl))
            /\ Has(out, IncreaseProtein(tp)) <=> (10 * avg.protein_g < 80 * tp)
            /\ \A t \in {15, 20, 25} \ {tp} : ~Has(out, IncreaseProtein(t))

\* C18 witness: at 13 months an average of 800.0 kcal, exactly 80% of the
\* band's 1000, draws no calorie message while 15.9 g of protein, below 80% of
\* 20 g, draws the protein message with the target 20
C18_Witness ==
    /\ rec_args # << >>
    /\ rec_args.child_age = 13
    /\ rec_args.avg_nutrition.calories = 8000
    /\ rec_args.avg_nutrition.protein_g = 159
    /\ rec_result = Some(<<IncreaseProtein(20)>>)

\* The rule a message belongs to: 1 calories, 2 protein, 3 fiber, 4 sodium,
\* 5 the well-balanced message
RuleOf(m) ==
    CASE m \in {IncreaseCalories(800), IncreaseCalories(1000),
                IncreaseCalories(1200), PortionControl} -> 1
      [] m \in {IncreaseProtein(15), IncreaseProtein(20), IncreaseProtein(25)} -> 2
      [] m = MoreFiber -> 3
      [] m = LessSodium -> 4
      [] OTHER -> 5

\* C19: the list is never empty and has at most 4 messages; its messages come
\* in the order calories, protein, fiber, sodium with at most one message per
\* rule; the fiber message is there iff the average fiber is below 10 and
\* the sodium message iff the average sodium is above 1500; the well-balanced
\* message is there iff none of the four rules fired, and is then alone.
C19_RecommendationList ==
    rec_result # None =>
        LET out == rec_result[1]
            avg == rec_args.avg_nutrition
            tc == BandCalories(rec_args.child_age)
            tp == BandProtein(rec_args.child_age)
            fired == \/ 10 * avg.calories < 80 * tc
                     \/ 10 * avg.calories > 120 * tc
                     \/ 10 * avg.protein_g < 80 * tp
                     \/ avg.fiber_g < 100
                     \/ avg.sodium_mg > 15000
        IN  /\ Len(out) >= 1 /\ Len(out) <= 4
            /\ \A i, j \in 1..Len(out) : i < j => RuleOf(out[i]) < RuleOf(out[j])
            /\ Has(out, MoreFiber) <=> (avg.fiber_g < 100)
            /\ Has(out, LessSodium) <=> (avg.sodium_mg > 15000)
            /\ Has(out, WellBalanced) <=> ~fired
            /\ Has(out, WellBalanced) => out = <<WellBalanced>>

\* C19 witness: all four rules fired, in the fixed order
C19_Witness ==
    /\ rec_args # << >>
    /\ rec_args.child_age = 25
    /\ rec_result = Some(<<PortionControl, IncreaseProtein(25), MoreFiber, LessSodium>>)


----------------------------------------------------------------------------
(* Claims about get_nutrition_summary (SpecSummary)                        *)

\* The last request was a nutrition summary asked by the parent of the child
SummaryServed ==
    /\ summary_response.op = "get_nutrition_summary"
    /\ summary_response.status # 404

\* The rows of nutrition_logs that are in range for the last request: the
\* child's logs with now - days <= meal_date <= now
InRange ==
    LET from == <<toordinal(utcnow) - summary_response.days, utcnow.time>>
    IN  {i \in DOMAIN nutrition_table :
            /\ nutrition_table[i].child_id = summary_response.child_id
            /\ InstantLeq(from, Instant(nutrition_table[i].meal_date))
            /\ InstantLeq(Instant(nutrition_table[i].meal_date), Instant(utcnow))}

\* The sum of a nutrient over the rows, in hundredths, a null counting as 0
RECURSIVE RowSum(_, _)
RowSum(ids, nutrient) ==
    IF ids = {} THEN 0
    ELSE LET i == CHOOSE j \in ids : TRUE
             x == nutrition_table[i][nutrient]
         IN  (IF x = None THEN 0 ELSE x[1][1]) + RowSum(ids \ {i}, nutrient)

\* The number of distinct calendar dates having at least one in-range log
TotalDays == Cardinality({CalendarDate(nutrition_table[i].meal_date) : i \in InRange})

\* C13: when the set of in-range logs is not empty the summary is served,
\* total_logs is the number of those logs, total_days (the number of distinct
\* calendar dates among them) is at least 1, and each daily average is the
\* sum of the nutrient over the in-range logs (null as 0) divided by
\* total_days, rounded to 1 decimal (a tenth at most 0.05 away from the
\* quotient).
C13_SummaryAverages ==
    (SummaryServed /\ InRange # {}) =>
        /\ summary_response.status = 200
        /\ summary_response.body.total_logs = Cardinality(InRange)
        /\ TotalDays >= 1
        /\ \A nutrient \in Nutrients :
              LET average == summary_response.body.daily_averages[nutrient]
                  total == RowSum(InRange, nutrient)
              IN  /\ 10 * average * TotalDays - total <= 5 * TotalDays
                  /\ total - 10 * average * TotalDays <= 5 * TotalDays

\* C13 witness: three rows are stored, two of them in range on two different
\* dates (one with no fiber value), and the average of 800 and 700.25
\* calories over the two days is reported as 750.1
C13_Witness ==
    /\ SummaryServed
    /\ Len(nutrition_table) = 3
    /\ Cardinality(InRange) = 2
    /\ TotalDays = 2
    /\ \E i \in InRange : nutrition_table[i].fiber_g = None
    /\ summary_response.status = 200
    /\ summary_response.body.total_logs = 2
    /\ summary_response.body.daily_averages.calories = 7501

\* The distance, in hundredths, between a reported average times total_days
\* and the sum of the nutrient over the in-range logs
Reconstruction(nutrient) ==
    Abs(10 * summary_response.body.daily_averages[nutrient] * TotalDays
            - RowSum(InRange, nutrient))

\* C14 as claimed: for a non-empty set of in-range logs and every nutrient,
\* the reported daily average multiplied by total_days differs from the
\* summed total by at most 0.1.
C14_ToleranceClaim ==
    (SummaryServed /\ summary_response.status = 200 /\ InRange # {}) =>
        \A nutrient \in Nutrients : Reconstruction(nutrient) <= 10

\* C14 amended: the reported daily average multiplied by total_days differs
\* from the summed total by at most 0.05 for each of the total_days days.
C14_ToleranceByDays ==
    (SummaryServed /\ summary_response.status = 200 /\ InRange # {}) =>
        \A nutrient \in Nutrients : Reconstruction(nutrient) <= 5 * TotalDays

\* C14 witness: 0.25 g of fat on each of three days is averaged to 0.2, and
\* 0.2 times 3 is 0.15 away from the total 0.75
C14_Witness ==
    /\ SummaryServed /\ summary_response.status = 200
    /\ TotalDays = 3
    /\ RowSum(InRange, "fat_g") = 75
    /\ summary_response.body.daily_averages.fat_g = 2
    /\ Reconstruction("fat_g") = 15

\* The food names of the fetched rows in the order they are met: the logs in
\* the order fetched (ascending meal_date), each log's items in their order
RECURSIVE Encountered(_)
Encountered(rows) ==
    IF rows = << >> THEN << >>
    ELSE LET items == Head(rows).food_items.value
         IN  [k \in 1..Len(items) |-> items[k].name] \o Encountered(Tail(rows))

\* The food items of the in-range logs, each as <<row, position>>
InRangeItems ==
    UNION {{<<i, k>> : k \in 1..Len(nutrition_table[i].food_items.value)} :
              i \in InRange}

NameOfItem(item) == nutrition_table[item[1]].food_items.value[item[2]].name

\* The number of food items of the in-range logs that carry the name
Occurrences(name) ==
    Cardinality({item \in InRangeItems : NameOfItem(item) = name})

\* The place of the name's first occurrence among the names met
FirstMet(name) ==
    LET met == Encountered(summary_response.rows)
    IN  CHOOSE i \in 1..Len(met) : met[i] = name /\ \A j \in 1..(i - 1) : met[j] # name

\* C15: most_common_foods holds min(5, number of names) distinct names of the
\* food items of the in-range logs, in non-increasing order of their
\* occurrence counts; no included name has a lower count than an excluded
\* one; among names of equal count the one met first (logs in meal_date
\* order, then item order) comes first and is the one included.
C15_MostCommonFoods ==
    (SummaryServed /\ summary_response.status = 200) =>
        LET top == summary_response.body.most_common_foods
            names == {NameOfItem(item) : item \in InRangeItems}
            included == {top[i] : i \in 1..Len(top)}
        IN  /\ Len(top) <= 5
            /\ Len(top) = Min2(5, Cardinality(names))
            /\ included \subseteq names
            /\ \A i, j \in 1..Len(top) :
                  i < j =>
                      /\ top[i] # top[j]
                      /\ Occurrences(top[i]) >= Occurrences(top[j])
                      /\ Occurrences(top[i]) = Occurrences(top[j])
                              => FirstMet(top[i]) < FirstMet(top[j])
            /\ \A x \in included, y \in names \ included :
                  /\ Occurrences(x) >= Occurrences(y)
                  /\ Occurrences(x) = Occurrences(y) => FirstMet(x) < FirstMet(y)

\* C15 witness: six names are met in three logs; banana (3) and apple (2)
\* lead, carrot, milk and egg follow in the order met, and rice, met last with
\* the same count of 1, is left out
C15_Witness ==
    /\ SummaryServed /\ summary_response.status = 200
    /\ Cardinality(InRange) = 3
    /\ Cardinality({NameOfItem(item) : item \in InRangeItems}) = 6
    /\ Occurrences("rice") = 1
    /\ summary_response.body.most_common_foods =
           <<"banana", "apple", "carrot", "milk", "egg">>

\* C17 as claimed: a summary request of the parent with no log in range,
\* whatever the days value (zero and negative ones included), raises no error
\* and returns total_logs = 0, empty daily_averages, recent_daily_summaries,
\* most_common_foods and nutrition_goals_status, and exactly one
\* recommendation, the prompt to start logging meals.
C17_EmptyRangeClaim ==
    (SummaryServed /\ InRange = {}) =>
        /\ summary_response.status = 200
        /\ summary_response.body.total_logs = 0
        /\ summary_response.body.daily_averages = << >>
        /\ summary_response.body.recent_daily_summaries = << >>
        /\ summary_response.body.most_common_foods = << >>
        /\ summary_response.body.nutrition_goals_status = << >>
        /\ summary_response.body.recommendations =
               <<"No nutrition data available. Start logging meals!">>

\* The last response is a summary with at least one log
NonEmptySummary ==
    /\ SummaryServed /\ summary_response.status = 200
    /\ summary_response.body.total_logs > 0

\* C20: in a non-empty summary, whatever the child's age, calories is
\* "adequate" iff 800 <= average calories <= 1500 and otherwise
\* "needs_attention"; protein is "adequate" iff average protein >= 15, else
\* "low"; fiber is "adequate" iff average fiber >= 10, else "low"; sodium is
\* "good" iff average sodium <= 1500, else "high" (averages in tenths).
C20_GoalStatus ==
    NonEmptySummary =>
        LET averages == summary_response.body.daily_averages
            goals == summary_response.body.nutrition_goals_status
        IN  /\ DOMAIN goals = {"calories", "protein", "fiber", "sodium"}
            /\ goals.calories \in {"adequate", "needs_attention"}
            /\ goals.calories = "adequate"
                   <=> (8000 <= averages.calories /\ averages.calories <= 15000)
            /\ goals.protein \in {"adequate", "low"}
            /\ goals.protein = "adequate" <=> averages.protein_g >= 150
            /\ goals.fiber \in {"adequate", "low"}
            /\ goals.fiber = "adequate" <=> averages.fiber_g >= 100
            /\ goals.sodium \in {"good", "high"}
            /\ goals.sodium = "good" <=> averages.sodium_mg <= 15000

\* C20 witness: for a child of 25 months, whose calorie target is 1200, the
\* averages 800.0, 15.0, 10.0 and 1500.0 sit exactly on the four limits and
\* all four flags are the good ones
C20_Witness ==
    /\ NonEmptySummary
    /\ children[summary_response.child_id].age = Some(25)
    /\ summary_response.body.daily_averages.calories = 8000
    /\ summary_response.body.daily_averages.protein_g = 150
    /\ summary_response.body.daily_averages.fiber_g = 100
    /\ summary_response.body.daily_averages.sodium_mg = 15000
    /\ summary_response.body.nutrition_goals_status =
           [calories |-> "adequate", protein |-> "adequate",
            fiber |-> "adequate", sodium |-> "good"]

----------------------------------------------------------------------------
(* Claims about get_nutrition_summary over a month of meals (SpecMonth)    *)

\* The calendar dates of the in-range logs
InRangeDates == {CalendarDate(nutrition_table[i].meal_date) : i \in InRange}

\* C21: in a non-empty summary recent_daily_summaries has min(7, total_days)
\* entries, one for each of the most recent dates with an in-range log, in
\* ascending order, each the entry of that date in the daily-summary
\* sequence of the fetched logs; the daily averages are the sums over all
\* in-range logs divided by total_days (all days, not the 7 shown), rounded
\* to 1 decimal.
C21_RecentDailySummaries ==
    NonEmptySummary =>
        LET recent == summary_response.body.recent_daily_summaries
            full == calculate_daily_nutrition(summary_response.rows)
            shown == {DateOfString(recent[i].date) : i \in 1..Len(recent)}
        IN  /\ Len(full) = TotalDays
            /\ Len(recent) = Min2(7, TotalDays)
            /\ \A i \in 1..Len(recent) :
                  recent[i] = full[Len(full) - Len(recent) + i]
            /\ \A i, j \in 1..Len(recent) :
                  i < j => DateBefore(DateOfString(recent[i].date),
                                      DateOfString(recent[j].date))
            /\ shown \subseteq InRangeDates
            /\ \A d \in shown, e \in InRangeDates \ shown : DateBefore(e, d)
            /\ \A nutrient \in Nutrients :
                  Reconstruction(nutrient) <= 5 * TotalDays

\* C21 witness: nine meals on nine days; the seven entries shown start at the
\* third day, and the average of 8400 calories is 933.3, a ninth of the
\* total (the seven days shown alone would give 914.3)
C21_Witness ==
    /\ NonEmptySummary
    /\ TotalDays = 9
    /\ Len(summary_response.body.recent_daily_summaries) = 7
    /\ DateOfString(summary_response.body.recent_daily_summaries[1].date).day
           = nutrition_table[3].meal_date.day
    /\ RowSum(InRange, "calories") = 840000
    /\ summary_response.body.daily_averages.calories = 9333

----------------------------------------------------------------------------
(* Claims about get_nutrition_summary over rows of any writer              *)
(* (SpecSummaryForeign)                                                    *)

\* The food-item payload of the row parses and every item has a name
WellFormed(row) ==
    /\ row.food_items.parses
    /\ \A k \in 1..Len(row.food_items.value) :
          "name" \in DOMAIN row.food_items.value[k]

\* The sum of a nutrient over the fetched rows, in hundredths, null as 0
RECURSIVE FetchedSum(_, _)
FetchedSum(rows, nutrient) ==
    IF rows = << >> THEN 0
    ELSE (IF Head(rows)[nutrient] = None THEN 0 ELSE Head(rows)[nutrient][1][1])
             + FetchedSum(Tail(rows), nutrient)

\* C16 as claimed: a fetched log whose payload is invalid JSON or has an item
\* without a name raises no error (the summary is served whenever its range
\* exists), contributes no food name (most_common_foods is what the other
\* logs alone give), and its nutrient values still count: total_logs is the
\* number of fetched logs and every average is the sum over all of them
\* divided by the number of their dates, rounded to 1 decimal.
C16_MalformedSkippedClaim ==
    (SummaryServed /\ SubtractDays(utcnow, summary_response.days) # None) =>
        /\ summary_response.status = 200
        /\ LET rows == summary_response.rows
               dates == {CalendarDate(rows[i].meal_date) : i \in 1..Len(rows)}
           IN  /\ summary_response.body.most_common_foods =
                      most_common_foods(SelectSeq(rows, WellFormed))
               /\ summary_response.body.total_logs = Len(rows)
               /\ rows # << >> =>
                      \A nutrient \in Nutrients :
                          Abs(10 * summary_response.body.daily_averages[nutrient]
                                  * Cardinality(dates)
                              - FetchedSum(rows, nutrient))
                              <= 5 * Cardinality(dates)

----------------------------------------------------------------------------
(* Claims about the user endpoints (SpecAccounts)                          *)

\* The request of session s names an email that a user other than the one it
\* writes holds at this moment
EmailHeld(s) ==
    IF s.op = "register_user"
    THEN \E i \in DOMAIN users : users[i].email = s.body.email
    ELSE /\ s.user = s.user_id /\ s.user_id \in DOMAIN users
         /\ s.body.email # None
         /\ \E i \in DOMAIN users : i # s.user_id /\ users[i].email = s.body.email[1]

\* C24: a register_user whose email exists already, and an update_user_info
\* to an email another user holds, is answered 409 with type "conflict", not
\* 500, and leaves the users table as it was
C24_ConflictClaim ==
    [][\A i \in DOMAIN sessions :
          (/\ sessions[i].pc # "done"
           /\ sessions'[i].pc = "done"
           /\ EmailHeld(sessions[i]))
              => /\ sessions'[i].status = 409
                 /\ sessions'[i].type = "conflict"
                 /\ users' = users]_vars

RegisteredBy(i) ==
    sessions[i].op = "register_user" /\ sessions[i].status = 201

\* C26 as stated: no two users have the same email, and of two registrations
\* with the same email at most one creates a user while the other, once
\* answered, has ended in an error
C26_OneRegistrationClaim ==
    /\ \A i, j \in DOMAIN users : users[i].email = users[j].email => i = j
    /\ \A i, j \in DOMAIN sessions :
          (/\ i # j
           /\ sessions[i].op = "register_user" /\ sessions[j].op = "register_user"
           /\ sessions[i].body.email = sessions[j].body.email
           /\ RegisteredBy(i))
              => (sessions[j].pc = "done" => sessions[j].status \in {409, 500})

\* C26, amended: in every interleaving of register_user and update_user_info
\* no two users have the same email; every registration that was answered with
\* an error created no user (the users are exactly the rows of the
\* registrations answered 201, one each); and two registrations with the same
\* email have both created a user only if one of the two users has taken
\* another email since
C26_EmailsStayUnique ==
    /\ \A i, j \in DOMAIN users : users[i].email = users[j].email => i = j
    /\ Len(users) = Cardinality({i \in DOMAIN sessions : RegisteredBy(i)})
    /\ \A i \in DOMAIN sessions :
          RegisteredBy(i) => sessions[i].id \in DOMAIN users
    /\ \A i, j \in DOMAIN sessions :
          (i # j /\ RegisteredBy(i) /\ RegisteredBy(j))
              => /\ sessions[i].id # sessions[j].id
                 /\ sessions[i].body.email = sessions[j].body.email
                       => \/ users[sessions[i].id].email # sessions[i].body.email
                          \/ users[sessions[j].id].email # sessions[j].body.email
    /\ \A i \in DOMAIN sessions :
          (sessions[i].op = "register_user" /\ sessions[i].pc = "done")
              => sessions[i].status \in {201, 409, 500}

\* Two registrations with the same email both passed the check before either
\* wrote: one created the user, the database refused the other (409)
C26_Witness ==
    /\ \E i, j \in DOMAIN sessions :
          /\ i # j
          /\ RegisteredBy(i)
          /\ sessions[j].op = "register_user" /\ sessions[j].status = 409
          /\ sessions[i].body.email = sessions[j].body.email
    /\ Len(users) = 1

----------------------------------------------------------------------------
(* Claims about the whole API (SpecFamily)                                 *)

LogOps ==
    {"add_growth_log", "get_child_growth_history", "get_growth_analysis",
     "add_meal_log", "get_nutrition_history", "get_nutrition_summary"}

\* The child child_id exists and its parent is user u
Owns(table, u, child_id) ==
    child_id \in DOMAIN table /\ table[child_id].parent_id = u

\* log is old extended by at most one row, a row of child child_id
ExtendedFor(old, log, child_id) ==
    /\ Len(log) = Len(old) + 1
    /\ \A i \in DOMAIN old : log[i] = old[i]
    /\ log[Len(log)].child_id = child_id

\* What C22 says of the answer r to a growth or nutrition request
LogRequestGuarded(r) ==
    IF ~Owns(children, r.user, r.child_id)
    THEN /\ r.status = 404
         /\ DOMAIN r = {"op", "user", "child_id", "status"}
         /\ UNCHANGED <<users, children, child_seq, growth_logs, nutrition_table>>
    ELSE /\ r.status \in {200, 201}
         /\ UNCHANGED <<users, children, child_seq>>
         /\ r.op = "add_growth_log" =>
                /\ ExtendedFor(growth_logs, growth_logs', r.child_id)
                /\ UNCHANGED nutrition_table
         /\ r.op = "add_meal_log" =>
                /\ ExtendedFor(nutrition_table, nutrition_table', r.child_id)
                /\ UNCHANGED growth_logs
         /\ r.op \notin {"add_growth_log", "add_meal_log"} =>
                UNCHANGED <<growth_logs, nutrition_table>>
         /\ r.op \in {"get_child_growth_history", "get_nutrition_history"} =>
                \A i \in DOMAIN r.body : r.body[i].child_id = r.child_id
         /\ r.op \in {"get_growth_analysis", "get_nutrition_summary"} =>
                \A i \in DOMAIN r.rows : r.rows[i].child_id = r.child_id

\* C22: a growth or nutrition request of a user for a child that does not
\* exist or is not theirs is answered 404, with no data, and changes nothing;
\* a request that succeeds reads or creates logs of a child of the caller only
C22_LogsOfOwnChildrenOnly ==
    [][/\ response'.op \in LogOps => LogRequestGuarded(response')
       /\ summary_response'.op \in LogOps => LogRequestGuarded(summary_response')]_vars

\* User 2 asked to add a meal for a child of user 1 that has logs, and for its
\* history: 404, and the tables hold the logs of that child only
C22_Witness ==
    /\ summary_response.op \in {"add_meal_log", "get_nutrition_history"}
    /\ summary_response.status = 404
    /\ summary_response.child_id \in DOMAIN children
    /\ children[summary_response.child_id].parent_id # summary_response.user
    /\ \E i \in DOMAIN growth_logs \cup DOMAIN nutrition_table :
          \/ (i \in DOMAIN growth_logs
                 /\ growth_logs[i].child_id = summary_response.child_id)
          \/ (i \in DOMAIN nutrition_table
                 /\ nutrition_table[i].child_id = summary_response.child_id)

IsPrefix(old, log) ==
    Len(old) <= Len(log) /\ \A i \in DOMAIN old : log[i] = old[i]

\* C23: in every step of the API the rows of growth_logs and of
\* nutrition_logs stay as they are (fields and child_id), none is removed, so
\* no child's number of logs decreases, and every row belongs to a child that
\* exists
C23_LogsAppendOnly ==
    [][/\ IsPrefix(growth_logs, growth_logs')
       /\ IsPrefix(nutrition_table, nutrition_table')
       /\ \A c \in 1..child_seq :
             /\ Cardinality(GrowthIdsOf(growth_logs, c))
                   <= Cardinality(GrowthIdsOf(growth_logs', c))
             /\ Cardinality({i \in DOMAIN nutrition_table :
                                nutrition_table[i].child_id = c})
                   <= Cardinality({i \in DOMAIN nutrition_table' :
                                      nutrition_table'[i].child_id = c})
       /\ \A i \in DOMAIN growth_logs' : growth_logs'[i].child_id \in DOMAIN children'
       /\ \A i \in DOMAIN nutrition_table' :
             nutrition_table'[i].child_id \in DOMAIN children']_vars

\* The parent asked for a child with a log to be deleted: the database
\* refused, the child and its log are there
C23_Witness ==
    /\ response.op = "remove_child_record"
    /\ response.status = 500
    /\ response.child_id \in DOMAIN children
    /\ children[response.child_id].parent_id = response.user
    /\ \/ \E i \in DOMAIN growth_logs : growth_logs[i].child_id = response.child_id
       \/ \E i \in DOMAIN nutrition_table :
             nutrition_table[i].child_id = response.child_id

ChildOps == {"get_child_details", "update_child_info", "remove_child_record"}

\* C27: get_child_details, update_child_info and remove_child_record answer
\* 404 for a child that does not exist and 403 for a child of another parent,
\* and leave the children as they are; the parent_id of a child is the user
\* who created it and never changes; list_children answers with exactly the
\* children of the caller
C27_ChildrenOfOwnOnly ==
    [][/\ response'.op \in ChildOps =>
             LET c == response'.child_id
                 u == response'.user
             IN  /\ c \notin DOMAIN children =>
                        response'.status = 404 /\ children' = children
                 /\ (c \in DOMAIN children /\ children[c].parent_id # u) =>
                        response'.status = 403 /\ children' = children
                 /\ response'.status \in {403, 404} => ~Owns(children, u, c)
       /\ \A c \in DOMAIN children \cap DOMAIN children' :
             children'[c].parent_id = children[c].parent_id
       /\ \A c \in DOMAIN children' \ DOMAIN children :
             /\ response'.op = "add_child"
             /\ children'[c].parent_id = response'.user
       /\ response'.op = "list_children" =>
             /\ \A id \in DOMAIN children' :
                   (\E r \in response'.body : r.id = id)
                       <=> children'[id].parent_id = response'.user
             /\ \A r \in response'.body :
                   /\ r.id \in DOMAIN children'
                   /\ r.parent_id = response'.user
                   /\ r.name = children'[r.id].name /\ r.age = children'[r.id].age
             /\ children' = children]_vars

\* User 1 asked for the child of user 2 to be changed or deleted: 403, and
\* the child is as its parent left it
C27_Witness ==
    /\ response.op \in {"update_child_info", "remove_child_record"}
    /\ response.status = 403
    /\ response.child_id \in DOMAIN children
    /\ children[response.child_id].parent_id # response.user
    /\ children[response.child_id].age = Some(25)

====
